---------------------------- MODULE Spec2Model ----------------------------
(***************************************************************************)
(* A model of ClipToEpub: the content pipeline of                          *)
(* src/cliptoepub/content_processor.py (format detection, conversion to    *)
(* HTML, chapter splitting, anchors and table of contents) and the ePub    *)
(* assembly of src/converter.py and src/clipboard_to_epub_v4.py.           *)
(*                                                                         *)
(* Each component has its own specification (SpecDetect, SpecPipeline,     *)
(* ...) over the variables it names; the others keep their initial value. *)
(***************************************************************************)
EXTENDS Integers, Sequences, FiniteSets, TLC

VARIABLES
    text,      \* ContentDetector: the string handed to detect_format
    format,    \* ContentDetector: the value detect_format returned ("none" before the call)
    content,   \* process_clipboard_content: the clipboard text
    options,   \* process_clipboard_content: split_chapters, words_per_chapter, force_toc
    pc,        \* process_clipboard_content: position in the function
    fmt,       \* process_clipboard_content: format_type
    html,      \* process_clipboard_content: html_content after convert()
    title,     \* process_clipboard_content: metadata["title"] ("absent", "empty" or "set")
    chapters,  \* process_clipboard_content: chapters
    toc_html,  \* process_clipboard_content: toc_html
    raised,    \* process_clipboard_content: the exception that left it ("none" if none)
    url,          \* _convert_url: its argument
    upc,          \* _convert_url: position in the function
    attempted,    \* _convert_url: the tiers entered so far, in order
    metadata,     \* _convert_url: the metadata dictionary
    page,         \* _convert_url: html_content or error_html, the page returned
    e2,           \* _convert_url: the exception caught at line 175 ("none" if none)
    soup,              \* split_content: the parse of its argument html_content
    given_title,       \* split_content: its argument title ("set" or "unset")
    words_per_chapter, \* ChapterSplitter: self.words_per_chapter
    split_result,      \* split_content: [chapters, called]
    impl,            \* the program: "converter" (converter.py) or "v4" (clipboard_to_epub_v4.py)
    enable,          \* enable_cache, enable_history, enable_edit_window
    clipboard,       \* the system clipboard: its text and whether it holds an image
    accumulated,     \* self.accumulator: the combined text of its clips ("" when it has none)
    call,            \* the running call: entry point, arguments, and the state it started from
    apc,             \* the running call: position
    app_content,     \* the running call: content
    processed,       \* the running call: processed / cached, what the pipeline returned
    book,            \* the book last assembled
    files,           \* the output directory: the files written, each with its book
    cache,           \* self.cache: the entries put
    history,         \* self.history: the entries added
    next_uuid,       \* the number of uuid4() values drawn
    now,             \* datetime.now(), in seconds
    returned,        \* what the last call returned: "None" or a path
    stats,           \* counts: calls, runs of process_clipboard_content, error_callback
                     \* calls, cache hits and misses, runs of the YouTube path
    current_keys,    \* the hotkey listener: self.current_keys
    workers,         \* the threads _trigger_conversion started, each with its position
    copied,          \* the hotkey listener: the text the clipboard holds
    second,          \* the hotkey listener: datetime.now(), in seconds
    job,             \* the assembler: processed (or cached), the override metadata, the route
    ebook,           \* the assembler: the EpubBook it built
    anchor_runs,     \* add_anchors_to_chapters: a chapter list, then what each application
                     \* of the function to the one before returned
    piece,           \* the chapter documents: a chapter content or TOC fragment
    xhtml,           \* the chapter documents: the document made of it for the book
    backend,         \* process_text: "openrouter", "rest" (httpx) or "sdk" (anthropic package)
    configured,      \* process_text: model, system prompt and API key are all given
    retries,         \* process_text: its argument retries
    attempt,         \* process_text: the loop variable
    replies,         \* process_text: what each request made so far came back with
    sleeps,          \* process_text: the attempts after which _sleep_backoff was called
    lpc,             \* process_text: position
    llm_result,      \* process_text: what it returned or raised ("none" while it runs)
    configs,         \* ensure_llm_config: a configuration, then what each application of
                     \* the function to the one before left in it
    sync_conf,       \* the synchronous wrapper: loop_running, and what the converter has
                     \* (cache, history, error_callback)
    wrapper,         \* the synchronous wrapper: position of the calling thread
    runner,          \* the synchronous wrapper: position of the conversion it started
    effects,         \* what the conversion has done: file, cache entry, history entry,
                     \* error callback
    at_return,       \* effects at the moment the wrapper returned
    clips,           \* self.accumulator: the clips it holds, in order
    next_clip,       \* the number of the next clip copied
    cpc,             \* combine_accumulated_clips: position of its thread
    combined,        \* combine_accumulated_clips: the clips combine_clips() returned
    combines,        \* the number of times the combine hotkey was served
    in_epub,         \* the clips that are in an ePub written so far
    discarded        \* the clips that clear() removed so far

detVars == <<text, format>>
pipeVars == <<content, options, pc, fmt, html, title, chapters, toc_html, raised>>
urlVars == <<url, upc, attempted, metadata, page, e2>>
splitVars == <<soup, given_title, words_per_chapter, split_result>>
appVars == <<impl, enable, clipboard, accumulated, call, apc, app_content, processed, book,
             files, cache, history, next_uuid, now, returned, stats>>
hotVars == <<current_keys, workers, copied, second>>
asmVars == <<job, ebook>>
ancVars == <<anchor_runs>>
docVars == <<piece, xhtml>>
oldVars == <<detVars, pipeVars, urlVars, splitVars, appVars, hotVars, asmVars, ancVars>>
llmVars == <<backend, configured, retries, attempt, replies, sleeps, lpc, llm_result>>
cfgVars == <<configs>>
syncVars == <<sync_conf, wrapper, runner, effects, at_return>>
accVars == <<clips, next_clip, cpc, combined, combines, in_epub, discarded>>
extVars == <<docVars, llmVars, cfgVars, syncVars, accVars>>
vars == <<oldVars, extVars>>

\* what an action of one component leaves alone
notDet == <<pipeVars, urlVars, splitVars, appVars, hotVars, asmVars, ancVars, extVars>>
notPipe == <<detVars, urlVars, splitVars, appVars, hotVars, asmVars, ancVars, extVars>>
notUrl == <<detVars, pipeVars, splitVars, appVars, hotVars, asmVars, ancVars, extVars>>
notSplit == <<detVars, pipeVars, urlVars, appVars, hotVars, asmVars, ancVars, extVars>>
notApp == <<detVars, pipeVars, urlVars, splitVars, hotVars, asmVars, ancVars, extVars>>
notHot == <<detVars, pipeVars, urlVars, splitVars, appVars, asmVars, ancVars, extVars>>
notAsm == <<detVars, pipeVars, urlVars, splitVars, appVars, hotVars, ancVars, extVars>>
notAnc == <<detVars, pipeVars, urlVars, splitVars, appVars, hotVars, asmVars, extVars>>
notDoc == <<oldVars, llmVars, cfgVars, syncVars, accVars>>
notLlm == <<oldVars, docVars, cfgVars, syncVars, accVars>>
notCfg == <<oldVars, docVars, llmVars, syncVars, accVars>>
notSync == <<oldVars, docVars, llmVars, cfgVars, accVars>>
notAcc == <<oldVars, docVars, llmVars, cfgVars, syncVars>>

(***************************************************************************)
(* Bounds of the model.                                                    *)
(***************************************************************************)
MaxTextLen == 3
MaxBody == 3
MaxWordsPerChapter == 2
MaxSplitBody == 4
MaxCalls == 1
MaxChapters == 2
MaxClock == 1
MaxThreads == 2
MaxAnchorBody == 2
MaxApplications == 2
MaxRetries == 2
MaxListed == 2
MaxClips == 3
MaxCombines == 3

(***************************************************************************)
(* Strings.  A string is a sequence of lexical atoms; every atom stands    *)
(* for the characters given beside it.                                     *)
(***************************************************************************)
Atoms ==
    { "sp",      \* " "
      "nl",      \* "\n"
      "w",       \* "x"           a plain word
      "url",     \* "http://h"    absolute http URL, host h
      "nohost",  \* "http:///p"   http scheme, empty host
      "lbr",     \* "["           an unmatched bracket: makes urlparse raise in a host
      "rtf",     \* "{\rtf"       the RTF header
      "ptag",    \* "<p>"         one of the tags the HTML heuristic names
      "btag",    \* "<b>"         a tag the HTML heuristic does not name
      "hash",    \* "#"
      "ital",    \* "*i*"
      "code",    \* "`c`"
      "bold",    \* "**b**"
      "htmltag", \* "<html>"
      "htmlcmt" }\* "<!-- <html> -->"  a comment that holds the text of an html tag

Whitespace == {"sp", "nl"}

RECURSIVE SeqsUpTo(_, _)
SeqsUpTo(S, n) ==
    IF n = 0 THEN { <<>> }
    ELSE LET shorter == SeqsUpTo(S, n - 1)
         IN  shorter \cup { Append(s, x) : s \in { t \in shorter : Len(t) = n - 1 }, x \in S }

Texts == SeqsUpTo(Atoms, MaxTextLen)

\* str.strip(): drop leading and trailing whitespace
RECURSIVE LStrip(_)
LStrip(s) == IF s # <<>> /\ Head(s) \in Whitespace THEN LStrip(Tail(s)) ELSE s

RECURSIVE RStrip(_)
RStrip(s) ==
    IF s # <<>> /\ s[Len(s)] \in Whitespace THEN RStrip(SubSeq(s, 1, Len(s) - 1)) ELSE s

Strip(s) == RStrip(LStrip(s))

Contains(s, a) == \E i \in 1..Len(s) : s[i] = a

Count(s, S) == Cardinality({ i \in 1..Len(s) : s[i] \in S })

\* position i starts a line (re.MULTILINE "^")
LineStart(s, i) == i = 1 \/ (i > 1 /\ s[i - 1] = "nl")

(***************************************************************************)
(* ContentDetector                                                         *)
(***************************************************************************)

\* urllib.parse.urlparse: the scheme and the host it finds, or ValueError.
\* The host runs from the "//" to the first "#"; an unmatched "[" in it raises.
UrlNetloc(s) ==
    LET stop == { i \in 2..Len(s) : s[i] = "hash" }
        last == IF stop = {} THEN Len(s) ELSE (CHOOSE i \in stop : \A j \in stop : i <= j) - 1
    IN  SubSeq(s, 2, last)

urlparse(s) ==
    IF s = <<>> THEN [raises |-> FALSE, scheme |-> "", netloc |-> FALSE]
    ELSE IF Head(s) = "url" THEN
        IF Contains(UrlNetloc(s), "lbr")
        THEN [raises |-> TRUE, scheme |-> "", netloc |-> FALSE]      \* ValueError
        ELSE [raises |-> FALSE, scheme |-> "http", netloc |-> TRUE]
    ELSE IF Head(s) = "nohost" THEN [raises |-> FALSE, scheme |-> "http", netloc |-> FALSE]
    ELSE [raises |-> FALSE, scheme |-> "", netloc |-> FALSE]

\* _is_url without the test of line 47
_is_url_any_lines(s) ==
    LET result == urlparse(s)
    IN  IF result.raises THEN FALSE
        ELSE result.scheme = "http" /\ result.netloc

_is_url(s) ==
    IF Contains(s, "nl") THEN FALSE
    ELSE LET result == urlparse(s)
         IN  IF result.raises THEN FALSE          \* except (ValueError, AttributeError)
             ELSE result.scheme = "http" /\ result.netloc

\* one of the six tag patterns, or three tag-like substrings
_is_html(s) ==
    \/ Contains(s, "ptag") \/ Contains(s, "htmltag") \/ Contains(s, "htmlcmt")
    \/ Count(s, {"ptag", "btag", "htmltag", "htmlcmt"}) >= 3

\* "^#{1,6}\s+" matches at position i, and ends before position j
HeadingMarker(s, i, j) ==
    /\ LineStart(s, i)
    /\ \E k \in i..Len(s) :
          /\ k - i + 1 <= 6
          /\ \A m \in i..k : s[m] = "hash"
          /\ j > k + 1
          /\ j <= Len(s) + 1
          /\ \A m \in (k + 1)..(j - 1) : s[m] \in Whitespace

\* "^#{1,6}\s+\S+"
HasHeading(s) ==
    \E i \in 1..Len(s), j \in 1..Len(s) : HeadingMarker(s, i, j) /\ s[j] \notin Whitespace

MarkdownScore(s) ==
      (IF \E i \in 1..Len(s), j \in 1..(Len(s) + 1) : HeadingMarker(s, i, j) THEN 1 ELSE 0)
    + (IF Contains(s, "bold") THEN 1 ELSE 0)                          \* \*\*[^*]+\*\*
    + (IF Contains(s, "bold") \/ Contains(s, "ital") THEN 1 ELSE 0)   \* \*[^*]+\*
    + (IF Contains(s, "code") THEN 1 ELSE 0)                          \* `[^`]+`

_is_markdown(s) == HasHeading(s) \/ MarkdownScore(s) >= 2

detect_format_swapped(txt) ==
    IF txt = <<>> THEN "plain"
    ELSE LET c == Strip(txt)
         IN  IF _is_url(c) THEN "url"
             ELSE IF c # <<>> /\ Head(c) = "rtf" THEN "rtf"
             ELSE IF _is_markdown(c) THEN "markdown"
             ELSE IF _is_html(c) THEN "html"
             ELSE "plain"

detect_format(txt) ==
    IF txt = <<>> THEN "plain"
    ELSE LET c == Strip(txt)
         IN  IF _is_url(c) THEN "url"
             ELSE IF c # <<>> /\ Head(c) = "rtf" THEN "rtf"
             ELSE IF _is_html(c) THEN "html"
             ELSE IF _is_markdown(c) THEN "markdown"
             ELSE "plain"

(***************************************************************************)
(* HTML.  A string of HTML is modelled by what BeautifulSoup's html.parser *)
(* finds in it.  An element has a tag, the number of words of its own      *)
(* text, an id (0: none, n: id="chapter_n") and child elements; a run of   *)
(* bare text is an element with tag "text".  A document is                 *)
(*   wraps   the ids of the <div id="chapter_n"> elements that enclose     *)
(*           everything else, outermost first                              *)
(*   htmlre  whether re.search(r"<html[^>]*>") finds a match in the string *)
(*   htmltag whether the parse holds an html element (soup.html)           *)
(*   head    whether the parse holds a head element                        *)
(*   styles  the number of style elements                                  *)
(*   body    the content elements, in document order                       *)
(***************************************************************************)
El(t, w, i, k) == [tag |-> t, words |-> w, id |-> i, kids |-> k]

Fragment(b) ==
    [wraps |-> <<>>, htmlre |-> FALSE, htmltag |-> FALSE, head |-> FALSE, styles |-> 0, body |-> b]

NoHtml == Fragment(<<>>)

HeadingTags == {"h1", "h2"}
AnchorTags == {"h1", "h2", "h3"}
BlockTags == {"p", "div", "h1", "h2", "h3", "h4", "h5", "h6", "blockquote", "ul", "ol"}

IsTag(e) == e.tag # "text"

RECURSIVE SumWords(_)
SumWords(es) == IF es = <<>> THEN 0 ELSE Head(es).words + SumWords(Head(es).kids) + SumWords(Tail(es))

\* len(element.get_text().split())
ElementWords(e) == e.words + SumWords(e.kids)

\* the paths <<i, j>> of the elements of a body in document order: <<i, 0>> is the
\* i-th top-level element, <<i, j>> its j-th child
RECURSIVE PathsFrom(_, _)
PathsFrom(b, i) ==
    IF i > Len(b) THEN <<>>
    ELSE <<<<i, 0>>>> \o [j \in 1..Len(b[i].kids) |-> <<i, j>>] \o PathsFrom(b, i + 1)

Paths(b) == PathsFrom(b, 1)

At(b, p) == IF p[2] = 0 THEN b[p[1]] ELSE b[p[1]].kids[p[2]]

RECURSIVE SelectSeqBy(_, _, _)
SelectSeqBy(ps, b, tags) ==
    IF ps = <<>> THEN <<>>
    ELSE (IF At(b, Head(ps)).tag \in tags THEN <<Head(ps)>> ELSE <<>>)
         \o SelectSeqBy(Tail(ps), b, tags)

\* soup.find_all(tags), as paths
find_all(b, tags) == SelectSeqBy(Paths(b), b, tags)

(***************************************************************************)
(* ChapterSplitter                                                         *)
(***************************************************************************)
ChapterN(n) == [k |-> "chapter", n |-> n]      \* "Chapter n"
HeadingTitle(n) == [k |-> "heading", n |-> n]  \* the text of the n-th h1/h2 of the document
GivenTitle == [k |-> "given", n |-> 0]         \* the title handed to split_content

\* the siblings that follow position k, up to the next heading: find_next_sibling()
\* steps over bare text, and "current in headings" ends the walk
RECURSIVE SiblingsUntilHeading(_, _)
SiblingsUntilHeading(sibs, k) ==
    IF k > Len(sibs) THEN <<>>
    ELSE IF ~ IsTag(sibs[k]) THEN SiblingsUntilHeading(sibs, k + 1)
    ELSE IF sibs[k].tag \in HeadingTags THEN <<>>
    ELSE <<sibs[k]>> \o SiblingsUntilHeading(sibs, k + 1)

ChapterContent(b, p) ==
    IF p[2] = 0 THEN SiblingsUntilHeading(b, p[1] + 1)
    ELSE SiblingsUntilHeading(b[p[1]].kids, p[2] + 1)

RECURSIVE HeadingChapters(_, _, _)
HeadingChapters(b, headings, i) ==
    IF i > Len(headings) THEN <<>>
    ELSE LET chapter_content == ChapterContent(b, headings[i])
         IN  (IF chapter_content # <<>>
              THEN <<[title |-> HeadingTitle(i), content |-> Fragment(chapter_content)]>>
              ELSE <<>>)
             \o HeadingChapters(b, headings, i + 1)

_split_by_headings(doc, headings) ==
    LET chs == HeadingChapters(doc.body, headings, 1)
    IN  IF chs # <<>> THEN chs ELSE <<[title |-> ChapterN(1), content |-> doc]>>

\* the loop with the threshold tested before the element's words are counted in
RECURSIVE WordLoop_tests_before_adding(_, _, _, _, _, _, _)
WordLoop_tests_before_adding(b, elements, k, cur, cur_words, chapter_num, wpc) ==
    IF k > Len(elements)
    THEN IF cur # <<>> THEN <<[title |-> ChapterN(chapter_num), content |-> Fragment(cur)]>>
         ELSE <<>>
    ELSE LET element == At(b, elements[k])
             n == ElementWords(element)
         IN  IF cur_words > wpc /\ cur # <<>>
             THEN <<[title |-> ChapterN(chapter_num), content |-> Fragment(cur)]>>
                  \o WordLoop_tests_before_adding(b, elements, k + 1, <<element>>, n,
                                                  chapter_num + 1, wpc)
             ELSE WordLoop_tests_before_adding(b, elements, k + 1, Append(cur, element),
                                               cur_words + n, chapter_num, wpc)

\* the loop without the flush of lines 324-327
RECURSIVE WordLoop_without_last(_, _, _, _, _, _, _)
WordLoop_without_last(b, elements, k, cur, cur_words, chapter_num, wpc) ==
    IF k > Len(elements) THEN <<>>
    ELSE LET element == At(b, elements[k])
             n == ElementWords(element)
         IN  IF cur_words + n > wpc /\ cur # <<>>
             THEN <<[title |-> ChapterN(chapter_num), content |-> Fragment(cur)]>>
                  \o WordLoop_without_last(b, elements, k + 1, <<element>>, n,
                                           chapter_num + 1, wpc)
             ELSE WordLoop_without_last(b, elements, k + 1, Append(cur, element),
                                        cur_words + n, chapter_num, wpc)

\* the loop of _split_by_word_count over elements[k..]
RECURSIVE WordLoop(_, _, _, _, _, _, _)
WordLoop(b, elements, k, cur, cur_words, chapter_num, wpc) ==
    IF k > Len(elements)
    THEN IF cur # <<>> THEN <<[title |-> ChapterN(chapter_num), content |-> Fragment(cur)]>>
         ELSE <<>>
    ELSE LET element == At(b, elements[k])
             n == ElementWords(element)
         IN  IF cur_words + n > wpc /\ cur # <<>>
             THEN <<[title |-> ChapterN(chapter_num), content |-> Fragment(cur)]>>
                  \o WordLoop(b, elements, k + 1, <<element>>, n, chapter_num + 1, wpc)
             ELSE WordLoop(b, elements, k + 1, Append(cur, element), cur_words + n,
                           chapter_num, wpc)

_split_by_word_count(doc, given, wpc) ==
    IF SumWords(doc.body) <= wpc
    THEN <<[title |-> IF given = "set" THEN GivenTitle ELSE ChapterN(1), content |-> doc]>>
    ELSE WordLoop(doc.body, find_all(doc.body, BlockTags), 1, <<>>, 0, 1, wpc)

split_content(doc, given, wpc) ==
    LET headings == find_all(doc.body, HeadingTags)
    IN  IF Len(headings) > 1 THEN _split_by_headings(doc, headings)
        ELSE _split_by_word_count(doc, given, wpc)

(***************************************************************************)
(* TOCGenerator                                                            *)
(***************************************************************************)
NoToc == [present |-> FALSE, links |-> <<>>]   \* toc_html = None

generate_toc_html(chs) ==
    [present |-> TRUE,
     links |-> [i \in 1..Len(chs) |-> [href |-> i, title |-> chs[i].title]]]

SetId(b, p, i) ==
    IF p[2] = 0 THEN [b EXCEPT ![p[1]].id = i]
    ELSE [b EXCEPT ![p[1]].kids[p[2]].id = i]

\* one chapter's content with its anchor chapter_i
Anchored(c, i) ==
    LET found == find_all(c.body, AnchorTags)
    IN  IF found # <<>> THEN [c EXCEPT !.body = SetId(c.body, found[1], i)]
        ELSE [c EXCEPT !.wraps = <<i>> \o c.wraps]

add_anchors_to_chapters(chs) ==
    [i \in 1..Len(chs) |-> [chs[i] EXCEPT !.content = Anchored(chs[i].content, i)]]

\* the number of elements of a document that carry id="chapter_n"
IdCount(c, n) ==
      Cardinality({ i \in 1..Len(c.wraps) : c.wraps[i] = n })
    + Cardinality({ i \in 1..Len(Paths(c.body)) : At(c.body, Paths(c.body)[i]).id = n })

(***************************************************************************)
(* ContentConverter.  The text of the clipboard is known to the model by   *)
(* the atoms that decide its format; the elements a converter's parser     *)
(* finds in it are any sequence the format allows, up to MaxBody.          *)
(***************************************************************************)
Heading1 == El("h1", 1, 0, <<>>)
Para(w) == El("p", w, 0, <<>>)
ParaWithId(n) == El("p", 1, n, <<>>)     \* <p id="chapter_n">x</p>
Span1 == El("span", 1, 0, <<>>)          \* an element outside the block list: span, pre, table
DivOf(ks) == El("div", 0, 0, ks)

PipeElements == {Heading1, Para(1), ParaWithId(2), Span1, DivOf(<<Para(1)>>)}

AnyBodies == SeqsUpTo(PipeElements, MaxBody)

\* _text_to_html_paragraphs: one <p> for every non-blank paragraph of the escaped text
ParagraphBodies == SeqsUpTo({Para(1), Para(2)}, MaxBody)

Converted(h, t) == [html |-> h, title |-> t]

\* _text_to_html_paragraphs(text): no paragraph for a blank text, one at least otherwise
Paragraphs(txt) ==
    IF \A i \in 1..Len(txt) : txt[i] \in Whitespace THEN { <<>> }
    ELSE ParagraphBodies \ { <<>> }

_convert_plain(txt) == { Converted(Fragment(b), "absent") : b \in Paragraphs(txt) }

\* rtf_to_text may raise: the raw text is wrapped instead
_convert_rtf(txt) ==
    UNION { IF rtf_fails
            THEN { Converted(Fragment(b), "absent") : b \in Paragraphs(txt) }
            ELSE { Converted(Fragment(b), "absent") : b \in ParagraphBodies }
          : rtf_fails \in BOOLEAN }

\* markdown2 puts running text in a <p>; raw HTML passes through, a <style> element
\* of the text included.  metadata["title"] is the text of the first h1, when there is one
_convert_markdown(txt) ==
    { Converted([Fragment(b) EXCEPT !.styles = n],
                IF find_all(b, {"h1"}) # <<>> THEN "set" ELSE "absent")
      : b \in { a \in AnyBodies : \E i \in 1..Len(a) : a[i].tag = "p" }, n \in {0, 1} }

\* script, style, meta and link are removed; the samples hold no body and no title
\* element, so str(soup) is returned: whatever follows the sample's first tag
_convert_html(txt) ==
    { Converted([wraps |-> <<>>,
                 htmlre |-> Contains(txt, "htmltag") \/ Contains(txt, "htmlcmt"),
                 htmltag |-> Contains(txt, "htmltag"),
                 head |-> FALSE,
                 styles |-> 0,
                 body |-> b], "absent")
      : b \in AnyBodies }

\* the three tiers of _convert_url: the article, the scraped page, the error page
UrlPage(tier) ==
    CASE tier = 1 -> { Converted(Fragment(<<Heading1, DivOf(<<Para(1)>>), DivOf(ps)>>), t)
                       : ps \in SeqsUpTo({Para(1)}, 2), t \in {"empty", "set"} }
      [] tier = 2 -> { Converted(Fragment(<<Heading1, Para(1), DivOf(ps)>>), "set")
                       : ps \in SeqsUpTo({Para(1)}, 2) }
      [] tier = 3 -> { Converted(Fragment(<<Heading1, Para(1), Para(1)>>), "absent") }

_convert_url(txt) == UrlPage(1) \cup UrlPage(2) \cup UrlPage(3)

_apply_styling(h) ==
    IF ~ h.htmlre
    THEN [raises |-> FALSE,
          html |-> [h EXCEPT !.htmlre = TRUE, !.htmltag = TRUE, !.head = TRUE,
                             !.styles = @ + 1]]
    ELSE IF ~ h.head /\ ~ h.htmltag
         THEN [raises |-> TRUE, html |-> h]       \* soup.html is None: AttributeError
         ELSE [raises |-> FALSE, html |-> [h EXCEPT !.head = TRUE, !.styles = @ + 1]]

\* convert(content, format_type): every (styled_html, metadata) it can return, and
\* whether it can raise
converter(txt, f) ==
    CASE f = "url" -> _convert_url(txt)
      [] f = "markdown" -> _convert_markdown(txt)
      [] f = "html" -> _convert_html(txt)
      [] f = "rtf" -> _convert_rtf(txt)
      [] OTHER -> _convert_plain(txt)

convert(txt, f) ==
    { [raises |-> _apply_styling(c.html).raises,
       html |-> _apply_styling(c.html).html,
       title |-> c.title] : c \in converter(txt, f) }

(***************************************************************************)
(* Specification of the detector: any string, then one call.               *)
(***************************************************************************)
DetIdle ==
    /\ text = <<>>
    /\ format = "none"

InitDetect ==
    /\ text \in Texts
    /\ format = "none"

Detect ==
    /\ format = "none"
    /\ format' = detect_format(text)
    /\ UNCHANGED <<text, notDet>>

NextDetect == Detect

(***************************************************************************)
(* process_clipboard_content.                                              *)
(***************************************************************************)
SampleContents ==
    { <<>>,                        \* ""
      <<"w">>,                     \* plain text
      <<"rtf", "w">>,              \* RTF
      <<"url">>,                   \* a bare URL
      <<"ital", "sp", "code">>,    \* Markdown
      <<"htmltag">>,               \* HTML that opens with an html element
      <<"htmlcmt">> }              \* HTML that opens with a comment holding "<html>"

Options ==
    [split_chapters : BOOLEAN, words_per_chapter : 1..MaxWordsPerChapter, force_toc : BOOLEAN]

PipeIdle ==
    /\ content = <<>>
    /\ options = [split_chapters |-> TRUE, words_per_chapter |-> 1, force_toc |-> FALSE]
    /\ pc = "idle"
    /\ fmt = "none"
    /\ html = NoHtml
    /\ title = "absent"
    /\ chapters = <<>>
    /\ toc_html = NoToc
    /\ raised = "none"

InitPipeline ==
    /\ content \in SampleContents
    /\ options \in Options
    /\ pc = "start"
    /\ fmt = "none"
    /\ html = NoHtml
    /\ title = "absent"
    /\ chapters = <<>>
    /\ toc_html = NoToc
    /\ raised = "none"

\* line 678
NeedsToc_one_chapter(chs, opts) == Len(chs) >= 1 \/ opts.force_toc

NeedsToc(chs, opts) == Len(chs) > 1 \/ opts.force_toc

\* lines 662-668: detect, convert, stamp the metadata
Convert ==
    /\ pc = "start"
    /\ fmt' = detect_format(content)
    /\ \E r \in convert(content, fmt') :
          /\ ~ r.raises
          /\ html' = r.html
          /\ title' = r.title
    /\ pc' = "converted"
    /\ UNCHANGED <<content, options, chapters, toc_html, raised, notPipe>>

\* convert() raises: nothing in process_clipboard_content catches it
ConvertRaises ==
    /\ pc = "start"
    /\ fmt' = detect_format(content)
    /\ \E r \in convert(content, fmt') : r.raises
    /\ raised' = "AttributeError"
    /\ pc' = "raised"
    /\ UNCHANGED <<content, options, html, title, chapters, toc_html, notPipe>>

\* lines 670-674: the title handed over is metadata["title"], "Untitled" when there is
\* none; only an empty one (None or "") makes the splitter fall back to "Chapter 1"
Split ==
    /\ pc = "converted"
    /\ chapters' =
          IF options.split_chapters
          THEN split_content(html, IF title = "empty" THEN "unset" ELSE "set",
                             options.words_per_chapter)
          ELSE <<[title |-> GivenTitle, content |-> html]>>
    /\ pc' = "split"
    /\ UNCHANGED <<content, options, fmt, html, title, toc_html, raised, notPipe>>

\* line 678, taken: line 679
Anchor ==
    /\ pc = "split"
    /\ NeedsToc(chapters, options)
    /\ chapters' = add_anchors_to_chapters(chapters)
    /\ pc' = "anchored"
    /\ UNCHANGED <<content, options, fmt, html, title, toc_html, raised, notPipe>>

\* line 680
Toc ==
    /\ pc = "anchored"
    /\ toc_html' = generate_toc_html(chapters)
    /\ pc' = "done"
    /\ UNCHANGED <<content, options, fmt, html, title, chapters, raised, notPipe>>

\* line 678, not taken: toc_html stays None
SkipToc ==
    /\ pc = "split"
    /\ ~ NeedsToc(chapters, options)
    /\ pc' = "done"
    /\ UNCHANGED <<content, options, fmt, html, title, chapters, toc_html, raised, notPipe>>

NextPipeline ==
    \/ Convert
    \/ ConvertRaises
    \/ Split
    \/ Anchor
    \/ Toc
    \/ SkipToc

(***************************************************************************)
(* _convert_url, step by step: article extraction, raw scrape, error page. *)
(***************************************************************************)
Urls == { t \in Texts : detect_format(t) = "url" }

NoMetadata == [source |-> <<>>, type |-> "none", title |-> "absent"]

NoPage == [tier |-> 0, href |-> <<>>, error |-> "none", html |-> NoHtml]

\* what Article.download, Article.parse and the formatting of lines 133-143 can raise
ArticleErrors == {"ArticleException", "TypeError"}

\* what requests.get, raise_for_status and the parsing of lines 157-165 can raise
ScrapeErrors == {"ConnectionError", "Timeout", "HTTPError"}

UrlIdle ==
    /\ url = <<>>
    /\ upc = "idle"
    /\ attempted = <<>>
    /\ metadata = NoMetadata
    /\ page = NoPage
    /\ e2 = "none"

InitUrl ==
    /\ url \in Urls
    /\ upc = "called"
    /\ attempted = <<>>
    /\ metadata = NoMetadata
    /\ page = NoPage
    /\ e2 = "none"

\* metadata = {...} in place of metadata.update({...})
MetadataReplaced(m, t) == [source |-> <<>>, type |-> "none", title |-> t]

\* lines 145-151 and 173: the entries source and type are left as line 120 set them
MetadataUpdate(m, t) == [m EXCEPT !.title = t]

\* line 120
Enter ==
    /\ upc = "called"
    /\ metadata' = [source |-> url, type |-> "web_article", title |-> "absent"]
    /\ upc' = "tier1"
    /\ UNCHANGED <<url, attempted, page, e2, notUrl>>

\* lines 121-152: the article is downloaded and parsed
ArticleOk ==
    /\ upc = "tier1"
    /\ attempted' = Append(attempted, 1)
    /\ \E p \in UrlPage(1) :
          /\ page' = [tier |-> 1, href |-> url, error |-> "none", html |-> p.html]
          /\ metadata' = MetadataUpdate(metadata, p.title)
    /\ upc' = "returned"
    /\ UNCHANGED <<url, e2, notUrl>>

\* lines 121-143 raise; line 153 catches every Exception
ArticleFails ==
    /\ upc = "tier1"
    /\ attempted' = Append(attempted, 1)
    /\ \E e \in ArticleErrors : upc' = "tier2"
    /\ UNCHANGED <<url, metadata, page, e2, notUrl>>

\* lines 154-174: the page is fetched and its text kept
ScrapeOk ==
    /\ upc = "tier2"
    /\ attempted' = Append(attempted, 2)
    /\ \E p \in UrlPage(2) :
          /\ page' = [tier |-> 2, href |-> url, error |-> "none", html |-> p.html]
          /\ metadata' = MetadataUpdate(metadata, p.title)
    /\ upc' = "returned"
    /\ UNCHANGED <<url, e2, notUrl>>

\* lines 155-165 raise; line 175 catches every Exception as e2
ScrapeFails ==
    /\ upc = "tier2"
    /\ attempted' = Append(attempted, 2)
    /\ e2' \in ScrapeErrors
    /\ upc' = "tier3"
    /\ UNCHANGED <<url, metadata, page, notUrl>>

\* lines 176-181: the error page
ErrorPage ==
    /\ upc = "tier3"
    /\ attempted' = Append(attempted, 3)
    /\ \E p \in UrlPage(3) :
          page' = [tier |-> 3, href |-> url, error |-> e2, html |-> p.html]
    /\ upc' = "returned"
    /\ UNCHANGED <<url, metadata, e2, notUrl>>

NextUrl ==
    \/ Enter
    \/ ArticleOk
    \/ ArticleFails
    \/ ScrapeOk
    \/ ScrapeFails
    \/ ErrorPage

(***************************************************************************)
(* split_content on its own: any document, any threshold, one call.        *)
(***************************************************************************)
Heading2 == El("h2", 1, 0, <<>>)
Text1 == El("text", 1, 0, <<>>)          \* a run of bare text between elements

SplitElements == {Heading1, Heading2, Para(1), Para(2), Text1, DivOf(<<Para(1)>>)}

SplitBodies == SeqsUpTo(SplitElements, MaxSplitBody)

NotSplit == [chapters |-> <<>>, called |-> FALSE]

SplitIdle ==
    /\ soup = NoHtml
    /\ given_title = "unset"
    /\ words_per_chapter = 1
    /\ split_result = NotSplit

InitSplit ==
    /\ soup \in { Fragment(b) : b \in SplitBodies }
    /\ given_title \in {"set", "unset"}
    /\ words_per_chapter \in 1..MaxWordsPerChapter
    /\ split_result = NotSplit

\* lines 275-282
SplitContent ==
    /\ ~ split_result.called
    /\ split_result' = [chapters |-> split_content(soup, given_title, words_per_chapter),
                        called |-> TRUE]
    /\ UNCHANGED <<soup, given_title, words_per_chapter, notSplit>>

NextSplit == SplitContent

(***************************************************************************)
(* The converters: ClipboardToEpubConverter of converter.py and            *)
(* AdvancedClipboardToEpubConverter of clipboard_to_epub_v4.py.  A call    *)
(* runs to its return before the next one starts.  A text is "" (empty),   *)
(* "ws" (whitespace only), one of two texts with content that are not a    *)
(* YouTube URL, or "yt", a bare YouTube URL; "None" is the argument left   *)
(* out.                                                                    *)
(***************************************************************************)
AppTexts == {"", "ws", "a", "b", "yt"}

\* converter.py 474-486
_looks_like_youtube_url(t) == t = "yt"

\* not content, without "or not content.strip()"
IsBlank_empty_only(t) == t = ""

IsBlank(t) == t \in {"", "ws"}          \* not content or not content.strip()

Falsy(t) == t \in {"None", ""}          \* not t

NonePath == [stamp |-> -1, cached |-> FALSE]       \* the return value None

\* output_dir / f"{safe_title}_{timestamp}.epub", f"{safe_title}_{timestamp}_cached.epub"
Path(stamp, cached) == [stamp |-> stamp, cached |-> cached]

NoCall == [entry |-> "none", clipboard_content |-> "None", use_accumulator |-> FALSE,
           edited |-> FALSE, lookup |-> "None", put |-> "None",
           files |-> {}, cache |-> {}, history |-> <<>>,
           stats |-> [calls |-> 0, pipeline_runs |-> 0, error_callbacks |-> 0,
                      cache_hits |-> 0, cache_misses |-> 0, youtube_runs |-> 0]]

NoProcessed == [chapters |-> 0, toc_html |-> FALSE, format |-> "none"]

NoBook == [identifier |-> 0, spine |-> <<>>, toc |-> <<>>, of |-> NoProcessed]

\* what process_clipboard_content can return for a text: a chapter list (empty for
\* some texts) and toc_html, which no option of the converters forces
ProcessedContents ==
    { [chapters |-> n, toc_html |-> n > 1, format |-> "text"] : n \in 0..MaxChapters }

\* lines 719-725: the single chapter of an image
ProcessedImage == [chapters |-> 1, toc_html |-> FALSE, format |-> "image"]

Doc(kind, n) == [doc |-> kind, n |-> n]

ChapterDocs(n) == [i \in 1..n |-> Doc("chapter", i)]

AppIdle ==
    /\ impl = "converter"
    /\ enable = [cache |-> TRUE, history |-> TRUE, edit_window |-> FALSE]
    /\ clipboard = [text |-> "", image |-> FALSE]
    /\ accumulated = ""
    /\ call = NoCall
    /\ apc = "off"
    /\ app_content = "None"
    /\ processed = NoProcessed
    /\ book = NoBook
    /\ files = {}
    /\ cache = {}
    /\ history = <<>>
    /\ next_uuid = 0
    /\ now = 0
    /\ returned = NonePath
    /\ stats = NoCall.stats

\* the cache outlives the process: at construction it is empty or holds what an earlier
\* conversion of the text "a" put, which had chapters
PriorCaches ==
    { {} } \cup { {[key |-> "a", value |-> v]} : v \in { x \in ProcessedContents : x.chapters > 0 } }

InitApp ==
    /\ impl \in {"converter", "v4"}
    /\ enable \in [cache : BOOLEAN, history : BOOLEAN, edit_window : BOOLEAN]
    /\ clipboard = [text |-> "", image |-> FALSE]
    /\ accumulated = ""
    /\ call = NoCall
    /\ apc = "idle"
    /\ app_content = "None"
    /\ processed = NoProcessed
    /\ book = NoBook
    /\ files = {}
    /\ cache \in PriorCaches
    /\ history = <<>>
    /\ next_uuid = 0
    /\ now = 0
    /\ returned = NonePath
    /\ stats = NoCall.stats

\* datetime.now(): the second of the last reading, or the next one
Later(t) == { u \in {t, t + 1} : u <= MaxClock }

appConf == <<impl, enable>>
appEnv == <<clipboard, accumulated>>
appStores == <<files, cache, history>>

\* a caller starts convert_clipboard_content_async or convert_text_to_epub_async.  The
\* user has left anything in the clipboard and in the accumulator; what the call is not
\* going to read of them is kept as it was
Call ==
    /\ apc \in {"idle", "returned"}
    /\ stats.calls < MaxCalls
    /\ \E entry \in (IF impl = "converter" THEN {"clipboard", "text"} ELSE {"clipboard"}),
          arg \in {"None", "", "ws", "b"},
          acc \in BOOLEAN :
          /\ entry = "text" => ~ acc
          /\ call' = [entry |-> entry, clipboard_content |-> arg, use_accumulator |-> acc,
                      edited |-> FALSE, lookup |-> "None", put |-> "None",
                      files |-> files, cache |-> cache, history |-> history,
                      stats |-> [stats EXCEPT !.calls = @ + 1]]
          /\ apc' = IF entry = "text" THEN "text"
                    ELSE IF impl = "converter" THEN "entered" ELSE "source"
          /\ accumulated' \in (IF acc THEN {"", "a"} ELSE {accumulated})
          /\ LET pastes == entry = "clipboard" /\ ~ acc
             IN  clipboard' \in
                   [text : IF pastes /\ Falsy(arg) THEN {"", "ws", "a", "yt"}
                           ELSE {clipboard.text},
                    image : IF pastes /\ arg # "b" THEN BOOLEAN ELSE {clipboard.image}]
    /\ stats' = [stats EXCEPT !.calls = @ + 1]
    /\ app_content' = "None"
    /\ processed' = NoProcessed
    /\ returned' = NonePath
    /\ UNCHANGED <<appConf, appStores, book, next_uuid, now, notApp>>

\* converter.py 371-379: an image in the clipboard goes first
PriorityImage ==
    /\ apc = "entered"
    /\ \E detected \in (IF ~ call.use_accumulator /\ call.clipboard_content = "None"
                          /\ clipboard.image
                       THEN BOOLEAN ELSE {FALSE}) :
          apc' = IF detected THEN "image" ELSE "source"
    /\ UNCHANGED <<appConf, appEnv, appStores, call, app_content, processed, book,
                   next_uuid, now, returned, stats, notApp>>

\* converter.py 380-388, v4 139-149
Source ==
    /\ apc = "source"
    /\ app_content' =
          IF call.use_accumulator THEN accumulated
          ELSE IF ~ Falsy(call.clipboard_content) THEN call.clipboard_content
          ELSE clipboard.text
    /\ apc' = IF call.use_accumulator /\ Falsy(accumulated) THEN "returned" ELSE "check"
    /\ UNCHANGED <<appConf, appEnv, appStores, call, processed, book, next_uuid, now,
                   returned, stats, notApp>>

\* the except clause of converter.py 462-466, v4 217-221
Failed(st) == [st EXCEPT !.error_callbacks = @ + 1]

\* pyperclip.paste raises
PasteRaises ==
    /\ apc = "source"
    /\ ~ call.use_accumulator
    /\ Falsy(call.clipboard_content)
    /\ stats' = Failed(stats)
    /\ apc' = "returned"
    /\ UNCHANGED <<appConf, appEnv, appStores, call, app_content, processed, book,
                   next_uuid, now, returned, notApp>>

\* converter.py 390-400, v4 151-159: no text; detect_image_in_clipboard raising counts
\* as no image in converter.py
NothingToConvert ==
    /\ apc = "check"
    /\ IsBlank(app_content)
    /\ \E detected \in (IF clipboard.image THEN BOOLEAN ELSE {FALSE}) :
          apc' = IF detected THEN "image" ELSE "returned"
    /\ UNCHANGED <<appConf, appEnv, appStores, call, app_content, processed, book,
                   next_uuid, now, returned, stats, notApp>>

\* v4 153: detect_image_in_clipboard raises outside any try of its own
DetectRaises ==
    /\ apc = "check"
    /\ impl = "v4"
    /\ IsBlank(app_content)
    /\ stats' = Failed(stats)
    /\ apc' = "returned"
    /\ UNCHANGED <<appConf, appEnv, appStores, call, app_content, processed, book,
                   next_uuid, now, returned, notApp>>

\* converter.py 390, v4 151: there is text
HasContent ==
    /\ apc = "check"
    /\ ~ IsBlank(app_content)
    /\ apc' = IF impl = "converter" THEN "edit" ELSE "cache"
    /\ UNCHANGED <<appConf, appEnv, appStores, call, app_content, processed, book,
                   next_uuid, now, returned, stats, notApp>>

\* converter.py 402-410 (before the cache check), v4 175-183 (after it): the window is
\* skipped, or the user converts the text as edited
EditWindow ==
    /\ apc = "edit"
    /\ IF enable.edit_window /\ ~ call.use_accumulator
       THEN app_content' \in {"a", "b"} /\ call' = [call EXCEPT !.edited = TRUE]
       ELSE app_content' = app_content /\ UNCHANGED call
    /\ apc' = IF impl = "converter" THEN "cache" ELSE "process"
    /\ UNCHANGED <<appConf, appEnv, appStores, processed, book, next_uuid, now,
                   returned, stats, notApp>>

\* the user closes the window: edited_content is None
EditCancelled ==
    /\ apc = "edit"
    /\ enable.edit_window /\ ~ call.use_accumulator
    /\ apc' = "returned"
    /\ UNCHANGED <<appConf, appEnv, appStores, call, app_content, processed, book,
                   next_uuid, now, returned, stats, notApp>>

\* ConversionCache.get: an entry put for this content, if the cache still has it
CacheGet(c, key) == { e.value : e \in { x \in c : x.key = key } }

\* ConversionCache.put
CachePut(c, key, value) == { x \in c : x.key # key } \cup {[key |-> key, value |-> value]}

\* the hit that does not return: the lookup only logs
HitGoesTo_falls_through == "youtube"

\* converter.py 427, v4 173: return await self._create_epub_from_cached_async(cached)
HitGoesTo == "cached"

\* converter.py 422-427, v4 163-173: a hit
CacheHit ==
    /\ apc = "cache"
    /\ enable.cache
    /\ \E cached \in CacheGet(cache, app_content) : processed' = cached
    /\ call' = [call EXCEPT !.lookup = app_content]
    /\ stats' = [stats EXCEPT !.cache_hits = @ + 1]
    /\ apc' = HitGoesTo
    /\ UNCHANGED <<appConf, appEnv, appStores, app_content, book, next_uuid, now,
                   returned, notApp>>

\* no cache, or no entry
CacheMiss ==
    /\ apc = "cache"
    /\ call' = IF enable.cache THEN [call EXCEPT !.lookup = app_content] ELSE call
    /\ stats' = [stats EXCEPT !.cache_misses = @ + 1]
    /\ apc' = IF impl = "converter" THEN "youtube" ELSE "edit"
    /\ UNCHANGED <<appConf, appEnv, appStores, app_content, processed, book,
                   next_uuid, now, returned, notApp>>

\* converter.py 431: use_accumulator, or not a YouTube URL
YouTubeSkipped ==
    /\ apc = "youtube"
    /\ ~ (~ call.use_accumulator /\ _looks_like_youtube_url(app_content))
    /\ apc' = "process"
    /\ UNCHANGED <<appConf, appEnv, appStores, call, app_content, processed, book,
                   next_uuid, now, returned, stats, notApp>>

\* converter.py 488-500 and 436-437: no subtitles, or the route raises; the generic
\* processing follows
YouTubeNothing ==
    /\ apc = "youtube"
    /\ ~ call.use_accumulator /\ _looks_like_youtube_url(app_content)
    /\ stats' = [stats EXCEPT !.youtube_runs = @ + 1]
    /\ apc' = "process"
    /\ UNCHANGED <<appConf, appEnv, appStores, call, app_content, processed, book,
                   next_uuid, now, returned, notApp>>

\* converter.py 274-278: the text handed to convert_text_to_epub_async
TextEntry ==
    /\ apc = "text"
    /\ app_content' = call.clipboard_content
    /\ apc' = IF Falsy(call.clipboard_content) \/ IsBlank(call.clipboard_content)
              THEN "returned" ELSE "process"
    /\ UNCHANGED <<appConf, appEnv, appStores, call, processed, book, next_uuid, now,
                   returned, stats, notApp>>

\* converter.py 439-441 and 281-283, v4 192-195
Process ==
    /\ apc = "process"
    /\ processed' \in ProcessedContents
    /\ stats' = [stats EXCEPT !.pipeline_runs = @ + 1]
    /\ apc' = "create"
    /\ UNCHANGED <<appConf, appEnv, appStores, call, app_content, book, next_uuid, now,
                   returned, notApp>>

\* process_clipboard_content raises: the error callback is called by
\* convert_clipboard_content_async, not by convert_text_to_epub_async (lines 307-309)
ProcessRaises ==
    /\ apc = "process"
    /\ stats' = [(IF call.entry = "clipboard" THEN Failed(stats) ELSE stats)
                   EXCEPT !.pipeline_runs = @ + 1]
    /\ apc' = "returned"
    /\ UNCHANGED <<appConf, appEnv, appStores, call, app_content, processed, book,
                   next_uuid, now, returned, notApp>>

\* converter.py 712-725, v4 233-256: the image becomes one chapter
ConvertImage ==
    /\ apc = "image"
    /\ \E ok \in BOOLEAN :
          IF ok THEN processed' = ProcessedImage /\ apc' = "create"
          ELSE processed' = processed /\ apc' = "returned"
    /\ UNCHANGED <<appConf, appEnv, appStores, call, app_content, book, next_uuid, now,
                   returned, stats, notApp>>

\* converter.py 898-967 and 806-843: the TOC page when toc_html is set, then the chapters
epub_chapters(p) ==
    (IF p.toc_html THEN <<Doc("toc", 0)>> ELSE <<>>) \o ChapterDocs(p.chapters)

\* v4 398-428: the chapters; toc_html is not read
epub_chapters_v4(p) == ChapterDocs(p.chapters)

\* converter.py 876-877 and 969-972, v4 376-377 and 430-436
Assemble(docs, p, id) ==
    [identifier |-> id, spine |-> <<Doc("nav", 0)>> \o docs, toc |-> docs, of |-> p]

\* epub.write_epub(path, book): the file at path is replaced
Written(fs, path, id, complete) ==
    { f \in fs : f.path # path }
        \cup {[path |-> path, identifier |-> id, complete |-> complete]}

\* converter.py 864-986, v4 341-453: the book is assembled and written
CreateEpub ==
    /\ apc = "create"
    /\ processed.chapters > 0
    /\ book' = Assemble(IF impl = "converter" THEN epub_chapters(processed)
                        ELSE epub_chapters_v4(processed),
                        processed, next_uuid + 1)
    /\ next_uuid' = next_uuid + 1
    /\ now' \in Later(now)
    /\ returned' = Path(now', FALSE)
    /\ files' = Written(files, returned', next_uuid + 1, TRUE)
    /\ apc' = "store"
    /\ UNCHANGED <<appConf, appEnv, cache, history, call, app_content, processed, stats,
                   notApp>>

\* converter.py 872-874 and 987-989, v4 361-363 and 455-457: no chapters, or
\* write_epub raises and may leave what it had written
CreateEpubFails ==
    /\ apc = "create"
    /\ IF processed.chapters = 0
       THEN UNCHANGED <<book, next_uuid, now, files>>
       ELSE /\ book' = Assemble(IF impl = "converter" THEN epub_chapters(processed)
                                ELSE epub_chapters_v4(processed),
                                processed, next_uuid + 1)
            /\ next_uuid' = next_uuid + 1
            /\ now' \in Later(now)
            /\ \/ files' = files
               \/ files' = Written(files, Path(now', FALSE), next_uuid + 1, FALSE)
    /\ returned' = NonePath
    /\ apc' = "store"
    /\ UNCHANGED <<appConf, appEnv, cache, history, call, app_content, processed, stats,
                   notApp>>

\* converter.py 501-531 and 274-309: subtitles were retrieved, and the transcript (or what
\* the LLM made of it) went through convert_text_to_epub_async, which wrote a book;
\* its path is returned at once (433-435)
YouTubeConverted ==
    /\ apc = "youtube"
    /\ ~ call.use_accumulator /\ _looks_like_youtube_url(app_content)
    /\ \E p \in { x \in ProcessedContents : x.chapters > 0 } :
          /\ processed' = p
          /\ book' = Assemble(epub_chapters(p), p, next_uuid + 1)
    /\ stats' = [stats EXCEPT !.youtube_runs = @ + 1, !.pipeline_runs = @ + 1]
    /\ next_uuid' = next_uuid + 1
    /\ now' \in Later(now)
    /\ returned' = Path(now', FALSE)
    /\ files' = Written(files, returned', next_uuid + 1, TRUE)
    /\ history' = IF enable.history THEN Append(history, returned') ELSE history
    /\ apc' = "returned"
    /\ UNCHANGED <<appConf, appEnv, cache, call, app_content, notApp>>

\* the same, but convert_text_to_epub_async returned None: the pipeline raised (caught
\* at 307), gave no chapters, or write_epub failed; the generic processing follows
YouTubeFails ==
    /\ apc = "youtube"
    /\ ~ call.use_accumulator /\ _looks_like_youtube_url(app_content)
    /\ stats' = [stats EXCEPT !.youtube_runs = @ + 1, !.pipeline_runs = @ + 1]
    /\ \E p \in ProcessedContents :
          /\ processed' = p
          /\ IF p.chapters = 0
             THEN UNCHANGED <<book, next_uuid, now, files>>
             ELSE /\ book' = Assemble(epub_chapters(p), p, next_uuid + 1)
                  /\ next_uuid' = next_uuid + 1
                  /\ now' \in Later(now)
                  /\ \/ files' = files
                     \/ files' = Written(files, Path(now', FALSE), next_uuid + 1, FALSE)
    /\ apc' = "process"
    /\ UNCHANGED <<appConf, appEnv, cache, history, call, app_content, returned, notApp>>

\* converter.py 771-859
CreateFromCached ==
    /\ apc = "cached"
    /\ impl = "converter"
    /\ processed.chapters > 0
    /\ book' = Assemble(epub_chapters(processed), processed, next_uuid + 1)
    /\ next_uuid' = next_uuid + 1
    /\ now' \in Later(now)
    /\ returned' = Path(now', TRUE)
    /\ files' = Written(files, returned', next_uuid + 1, TRUE)
    /\ apc' = "returned"
    /\ UNCHANGED <<appConf, appEnv, cache, history, call, app_content, processed, stats,
                   notApp>>

\* converter.py 860-862: write_epub raises
CreateFromCachedFails ==
    /\ apc = "cached"
    /\ impl = "converter"
    /\ processed.chapters > 0
    /\ book' = Assemble(epub_chapters(processed), processed, next_uuid + 1)
    /\ next_uuid' = next_uuid + 1
    /\ now' \in Later(now)
    /\ \/ files' = files
       \/ files' = Written(files, Path(now', TRUE), next_uuid + 1, FALSE)
    /\ returned' = NonePath
    /\ apc' = "returned"
    /\ UNCHANGED <<appConf, appEnv, cache, history, call, app_content, processed, stats,
                   notApp>>

\* v4 328-339: a file name is made and returned; no book, no write
CreateFromCachedV4 ==
    /\ apc = "cached"
    /\ impl = "v4"
    /\ now' \in Later(now)
    /\ returned' = Path(now', TRUE)
    /\ apc' = "returned"
    /\ UNCHANGED <<appConf, appEnv, appStores, call, app_content, processed, book,
                   next_uuid, stats, notApp>>

\* converter.py 446-461, 292-306 and 730-743, v4 200-215: cache and history, when a
\* path came back; only convert_clipboard_content_async stores, and not an image
Store ==
    /\ apc = "store"
    /\ LET puts == returned # NonePath /\ enable.cache /\ call.entry = "clipboard"
                    /\ processed.format # "image"
       IN  /\ cache' = IF puts THEN CachePut(cache, app_content, processed) ELSE cache
           /\ call' = IF puts THEN [call EXCEPT !.put = app_content] ELSE call
    /\ history' = IF returned # NonePath /\ enable.history
                  THEN Append(history, returned) ELSE history
    /\ apc' = "returned"
    /\ UNCHANGED <<appConf, appEnv, files, app_content, processed, book, next_uuid,
                   now, returned, stats, notApp>>

NextApp ==
    \/ Call
    \/ PriorityImage
    \/ Source
    \/ PasteRaises
    \/ NothingToConvert
    \/ DetectRaises
    \/ HasContent
    \/ EditWindow
    \/ EditCancelled
    \/ CacheHit
    \/ CacheMiss
    \/ YouTubeSkipped
    \/ YouTubeNothing
    \/ YouTubeConverted
    \/ YouTubeFails
    \/ TextEntry
    \/ Process
    \/ ProcessRaises
    \/ ConvertImage
    \/ CreateEpub
    \/ CreateEpubFails
    \/ CreateFromCached
    \/ CreateFromCachedFails
    \/ CreateFromCachedV4
    \/ Store

(***************************************************************************)
(* The hotkey listener of converter.py.  Every press that completes the    *)
(* convert hotkey starts a thread that runs convert_clipboard_content;     *)
(* the threads share the clipboard, the clock, the cache and the output    *)
(* directory, and nothing orders them.  A text is "a" (plain text: its     *)
(* processed metadata has no title) or "b" (Markdown with a heading, which *)
(* is its title).                                                          *)
(***************************************************************************)
Keys == {"shift", "e"}

convert_hotkey == {"shift", "e"}

HotTexts == {"a", "b"}

NoFile == [title |-> <<"none">>, stamp |-> -1, cached |-> FALSE]

NoWorker == [tpc |-> "idle", text |-> "", hit |-> FALSE, title |-> <<"none">>, path |-> NoFile]

Threads == 1..MaxThreads

HotIdle ==
    /\ current_keys = {}
    /\ workers = [w \in Threads |-> NoWorker]
    /\ copied = "a"
    /\ second = 0

InitHotkeys ==
    /\ current_keys = {}
    /\ workers = [w \in Threads |-> NoWorker]
    /\ copied \in HotTexts
    /\ second = 0

\* proc_metadata.get("title"): only the Markdown text has one
ProcessedTitle(t) == IF t = "b" THEN <<"b">> ELSE <<>>

\* converter.py 879 and 788: the title of the book, Clipboard_{now} when there is none
BookTitle(t, at) == IF ProcessedTitle(t) # <<>> THEN ProcessedTitle(t) ELSE <<"Clipboard", at>>

\* converter.py 974-977 and 850-853: title, timestamp to the second, "_cached" on a hit
FileName(ttl, at, hit) == [title |-> ttl, stamp |-> at, cached |-> hit]

\* the user copies another text
Copy ==
    /\ \E t \in HotTexts \ {copied} : copied' = t
    /\ UNCHANGED <<current_keys, workers, second, notHot>>

\* a second passes
Tick ==
    /\ second < MaxClock
    /\ second' = second + 1
    /\ UNCHANGED <<current_keys, workers, copied, notHot>>

\* converter.py 992-997 and 1026-1033: _on_press, and _trigger_conversion when the
\* convert hotkey is held; the listener also reports the repeats of a held key
OnPress(k) ==
    /\ current_keys' = current_keys \cup {k}
    /\ IF convert_hotkey \subseteq current_keys'
       THEN \E w \in Threads :
               /\ workers[w].tpc = "idle"
               /\ \A v \in Threads : v < w => workers[v].tpc # "idle"
               /\ workers' = [workers EXCEPT ![w].tpc = "started"]
       ELSE workers' = workers
    /\ UNCHANGED <<copied, second, notHot>>

\* converter.py 1005-1009
OnRelease(k) ==
    /\ current_keys' = current_keys \ {k}
    /\ UNCHANGED <<workers, copied, second, notHot>>

\* converter.py 387: the thread reads the clipboard
Paste(w) ==
    /\ workers[w].tpc = "started"
    /\ workers' = [workers EXCEPT ![w].tpc = "pasted", ![w].text = copied]
    /\ UNCHANGED <<current_keys, copied, second, notHot>>

\* converter.py 422-427: a hit needs an entry, which a conversion of the same text puts
\* once its file is written (446-448)
CacheLookup(w) ==
    /\ workers[w].tpc = "pasted"
    /\ \E found \in BOOLEAN :
          /\ found => \E v \in Threads \ {w} :
                         workers[v].tpc = "done" /\ workers[v].text = workers[w].text
          /\ workers' = [workers EXCEPT ![w].tpc = "looked", ![w].hit = found]
    /\ UNCHANGED <<current_keys, copied, second, notHot>>

\* converter.py 879-881 and 788-789: the title, after the pipeline ran or the entry was read
SetTitle(w) ==
    /\ workers[w].tpc = "looked"
    /\ workers' = [workers EXCEPT ![w].tpc = "titled",
                                  ![w].title = BookTitle(workers[w].text, second)]
    /\ UNCHANGED <<current_keys, copied, second, notHot>>

\* converter.py 974-980 and 850-856: the path is made and write_epub starts on it
WriteBegin(w) ==
    /\ workers[w].tpc = "titled"
    /\ workers' = [workers EXCEPT ![w].tpc = "writing",
                                  ![w].path = FileName(workers[w].title, second, workers[w].hit)]
    /\ UNCHANGED <<current_keys, copied, second, notHot>>

\* write_epub returns; cache.put and the return of the path
WriteEnd(w) ==
    /\ workers[w].tpc = "writing"
    /\ workers' = [workers EXCEPT ![w].tpc = "done"]
    /\ UNCHANGED <<current_keys, copied, second, notHot>>

NextHotkeys ==
    \/ Copy
    \/ Tick
    \/ \E k \in Keys : OnPress(k)
    \/ \E k \in Keys : OnRelease(k)
    \/ \E w \in Threads : Paste(w)
    \/ \E w \in Threads : CacheLookup(w)
    \/ \E w \in Threads : SetTitle(w)
    \/ \E w \in Threads : WriteBegin(w)
    \/ \E w \in Threads : WriteEnd(w)

(***************************************************************************)
(* The assembler of converter.py on its own: _create_epub_async(processed, *)
(* metadata) on a cache miss and _create_epub_from_cached_async(cached) on *)
(* a hit.  A dictionary entry is present or not, and its value is a        *)
(* sequence: <<>> is "" or None for a title and [] for an author list.     *)
(***************************************************************************)
Missing == [has |-> FALSE, value |-> <<>>]

Entry(v) == [has |-> TRUE, value |-> v]

\* d.get(key): None when the key is missing
Get(e) == IF e.has THEN e.value ELSE <<>>

\* d.get(key, default)
GetOr(e, default) == IF e.has THEN e.value ELSE default

\* a or b
Or(a, b) == IF a # <<>> THEN a ELSE b

default_author == "Unknown Author"

\* f'Clipboard_{datetime.now().strftime("%Y%m%d_%H%M%S")}'
ClipboardTitle(at) == <<"Clipboard", at>>

\* the override metadata: from the editor or the accumulator, {} otherwise
OverrideTitles == {Missing, Entry(<<>>), Entry(<<"O">>)}
OverrideAuthors == {Missing, Entry(<<>>), Entry(<<"o">>)}

\* processed["metadata"]: a title when the converter found one (None for an article
\* without one); authors only from _convert_url, [] when the article names none
ProcessedTitles == {Missing, Entry(<<>>), Entry(<<"P">>)}
ProcessedAuthors == {Missing, Entry(<<>>), Entry(<<"p">>), Entry(<<"p", "q">>)}

\* on a hit the override metadata in scope at line 427 is the editor's, which writes
\* "title" and "author" but no "authors", or none
Jobs ==
    { j \in [route : {"miss", "hit"},
             override : [title : OverrideTitles, authors : OverrideAuthors],
             proc_metadata : [title : ProcessedTitles, authors : ProcessedAuthors],
             at : 0..MaxClock] :
        j.route = "hit" => j.override.authors = Missing }

NoJob ==
    [route |-> "none",
     override |-> [title |-> Missing, authors |-> Missing],
     proc_metadata |-> [title |-> Missing, authors |-> Missing],
     at |-> 0]

NoEbook == [built |-> FALSE, title |-> <<>>, authors |-> <<>>]

AsmIdle ==
    /\ job = NoJob
    /\ ebook = NoEbook

InitAssemble ==
    /\ job \in Jobs
    /\ ebook = NoEbook

\* converter.py 879-886
AssembleMiss ==
    /\ job.route = "miss"
    /\ ~ ebook.built
    /\ ebook' =
          [built |-> TRUE,
           title |-> Or(Get(job.override.title),
                        Or(Get(job.proc_metadata.title), ClipboardTitle(job.at))),
           authors |-> Or(Get(job.override.authors),
                          GetOr(job.proc_metadata.authors, <<default_author>>))]
    /\ UNCHANGED <<job, notAsm>>

\* converter.py 788-793: the override metadata is not handed over
AssembleHit ==
    /\ job.route = "hit"
    /\ ~ ebook.built
    /\ ebook' =
          [built |-> TRUE,
           title |-> Or(Get(job.proc_metadata.title), ClipboardTitle(job.at)),
           authors |-> Or(Get(job.proc_metadata.authors), <<default_author>>)]
    /\ UNCHANGED <<job, notAsm>>

NextAssemble ==
    \/ AssembleMiss
    \/ AssembleHit

(***************************************************************************)
(* add_anchors_to_chapters on its own: any chapter list without ids, and   *)
(* the function applied to its own result again and again.                 *)
(***************************************************************************)
Heading3 == El("h3", 1, 0, <<>>)

AnchorElements == {Heading1, Heading3, Para(1), DivOf(<<Heading1>>)}

AnchorBodies == SeqsUpTo(AnchorElements, MaxAnchorBody)

ChapterLists ==
    SeqsUpTo({ [title |-> ChapterN(1), content |-> Fragment(b)] : b \in AnchorBodies },
             MaxChapters)

AncIdle == anchor_runs = <<>>

InitAnchors == anchor_runs \in { <<chs>> : chs \in ChapterLists }

\* lines 385-401, on the list the last application returned
AddAnchors ==
    /\ Len(anchor_runs) <= MaxApplications
    /\ anchor_runs' = Append(anchor_runs, add_anchors_to_chapters(anchor_runs[Len(anchor_runs)]))
    /\ UNCHANGED notAnc

NextAnchors == AddAnchors

(***************************************************************************)
(* The chapter documents handed to the ePub serializer.  A content is      *)
(* known by what its stripped text starts with, by whether it holds an     *)
(* html element, by its body element (none, one without contents, one with *)
(* contents) and by whether it holds a null byte.  A TOC fragment is what  *)
(* generate_toc_html returns: a div, with the chapter titles in it.        *)
(***************************************************************************)
Leads == {"<!DOCTYPE", "<html", "other"}

Pieces ==
    { p \in [kind : {"chapter"}, lead : Leads, html : BOOLEAN,
             body : {"none", "empty", "full"}, nul : BOOLEAN] :
        p.lead = "<html" => p.html }
    \cup [kind : {"toc"}, lead : {"other"}, html : {FALSE}, body : {"none"}, nul : BOOLEAN]

NoXhtml == [route |-> "none", skeletons |-> 0, as_is |-> FALSE, nested |-> FALSE, nul |-> FALSE]

DocIdle ==
    /\ piece = [kind |-> "toc", lead |-> "other", html |-> FALSE, body |-> "none", nul |-> FALSE]
    /\ xhtml = NoXhtml

InitDocs ==
    /\ piece \in Pieces
    /\ xhtml = NoXhtml

\* converter.py 933-958, and 903-927 for the TOC page: null bytes removed, the contents
\* of the body element taken when there is one with contents, the whole text otherwise,
\* and the skeleton put around it in every case
_ensure_xhtml(p) ==
    LET inner_is_txt == p.body # "full"
    IN  [skeletons |-> 1, as_is |-> FALSE, nested |-> inner_is_txt /\ p.html, nul |-> FALSE]

\* converter.py 829-840 and 812-822, clipboard_to_epub_v3.py 179-195: the content as it
\* is when it starts with <!DOCTYPE or <html, the skeleton around it otherwise
WrapUnlessDocument(p) ==
    IF p.lead \in {"<!DOCTYPE", "<html"}
    THEN [skeletons |-> 0, as_is |-> TRUE, nested |-> FALSE, nul |-> p.nul]
    ELSE [skeletons |-> 1, as_is |-> FALSE, nested |-> p.html, nul |-> p.nul]

\* _create_epub_async
DocumentOnMiss ==
    /\ xhtml = NoXhtml
    /\ xhtml' = [route |-> "miss"] @@ _ensure_xhtml(piece)
    /\ UNCHANGED <<piece, notDoc>>

\* _create_epub_from_cached_async
DocumentOnHit ==
    /\ xhtml = NoXhtml
    /\ xhtml' = [route |-> "hit"] @@ WrapUnlessDocument(piece)
    /\ UNCHANGED <<piece, notDoc>>

\* clipboard_to_epub_v3.py convert_clipboard_content, which makes no TOC page
DocumentV3 ==
    /\ xhtml = NoXhtml
    /\ piece.kind = "chapter"
    /\ xhtml' = [route |-> "v3"] @@ WrapUnlessDocument(piece)
    /\ UNCHANGED <<piece, notDoc>>

NextDocs == DocumentOnMiss \/ DocumentOnHit \/ DocumentV3

(***************************************************************************)
(* llm_anthropic.py: process_text and _process_via_openrouter.  A request  *)
(* comes back with a response that has no error status ("ok"), with an     *)
(* HTTP error status and a body, or with an exception of the transport.    *)
(* Of a body or an exception text only this is kept: whether it holds one  *)
(* of the words _is_recoverable looks for ("retry", "try again",           *)
(* "timeout", ...), and whether it reports that the model was not found.   *)
(***************************************************************************)
Statuses == {400, 401, 403, 404, 429, 503}

Replies ==
    {[k |-> "ok", status |-> 200, body |-> "plain"]}
    \cup [k : {"http"}, status : Statuses, body : {"plain", "retry"}]
    \cup {[k |-> "http", status |-> 404, body |-> "model_not_found"]}
    \cup [k : {"exc"}, status : {0}, body : {"plain", "retry"}]

LlmIdle ==
    /\ backend = "rest"
    /\ configured = FALSE
    /\ retries = 0
    /\ attempt = 0
    /\ replies = <<>>
    /\ sleeps = <<>>
    /\ lpc = "enter"
    /\ llm_result = "none"

\* retries comes from the configuration file through int(); a negative one makes the
\* loop run no attempt at all
InitLlm ==
    /\ backend \in {"openrouter", "rest", "sdk"}
    /\ configured \in BOOLEAN
    /\ retries \in -1..MaxRetries
    /\ attempt = 0
    /\ replies = <<>>
    /\ sleeps = <<>>
    /\ lpc = "enter"
    /\ llm_result = "none"

\* lines 63-75; status 0 is status_code None
_is_recoverable(words, status) ==
    IF status # 0
    THEN status \in {429, 408, 409, 425, 500, 502, 503, 504} \/ (500 <= status /\ status <= 599)
    ELSE words = "retry"

\* the exception the try block raises for a reply: its class, the status_code the
\* handler can read from it, and the words of str(e)
Raised(be, reply) ==
    IF reply.k = "exc" THEN [class |-> "Exception", status |-> 0, words |-> reply.body]
    ELSE IF be = "sdk"
    THEN [class |-> "APIStatusError", status |-> reply.status, words |-> reply.body]
    ELSE IF reply.status \in {401, 403}
    THEN [class |-> "AnthropicAuthOrConfigError", status |-> 0, words |-> "plain"]
    ELSE IF reply.body = "model_not_found"
    THEN [class |-> "RuntimeError", status |-> 0, words |-> "plain"]
    ELSE IF _is_recoverable(reply.body, reply.status)
    THEN [class |-> "AnthropicRecoverableError", status |-> 0, words |-> "plain"]
    ELSE [class |-> "RuntimeError", status |-> 0, words |-> reply.body]

\* the loop of lines 301-304 and 160-163 with the test "attempt <= retries"
RetryOrExhaust_one_more(att, r) == IF att <= r THEN "sleep" ELSE "exhausted"

\* lines 301-304 and 160-163
RetryOrExhaust(att, r) == IF att < r THEN "sleep" ELSE "exhausted"

\* the except clauses, lines 288-308 and 155-164
Handler(e, att, r) ==
    IF e.class = "AnthropicAuthOrConfigError" THEN "auth"
    ELSE IF e.class = "AnthropicRecoverableError" \/ _is_recoverable(e.words, e.status)
    THEN RetryOrExhaust(att, r)
    ELSE IF e.status \in {401, 403} THEN "auth"
    ELSE "raise"

\* lines 188-189, 209-210, 97-99
LlmEnter ==
    /\ lpc = "enter"
    /\ IF configured
       THEN lpc' = "request" /\ UNCHANGED llm_result
       ELSE lpc' = "raised" /\ llm_result' = "AnthropicAuthOrConfigError"
    /\ UNCHANGED <<backend, configured, retries, attempt, replies, sleeps, notLlm>>

\* one pass of the loop body, lines 224-308 and 125-164
LlmAttempt ==
    /\ lpc = "request"
    /\ attempt <= retries
    /\ \E reply \in Replies :
          /\ replies' = Append(replies, reply)
          /\ IF reply.k = "ok"
             THEN lpc' = "returned" /\ llm_result' = "text"
             ELSE LET h == Handler(Raised(backend, reply), attempt, retries)
                  IN  /\ lpc' = IF h = "sleep" THEN "sleep" ELSE "raised"
                      /\ llm_result' = CASE h = "sleep" -> llm_result
                                         [] h = "exhausted" -> "AnthropicRecoverableError"
                                         [] h = "auth" -> "AnthropicAuthOrConfigError"
                                         [] OTHER -> "error"
    /\ UNCHANGED <<backend, configured, retries, attempt, sleeps, notLlm>>

\* _sleep_backoff(attempt) and continue: lines 302-303, 161-162, 30-33
LlmBackoff ==
    /\ lpc = "sleep"
    /\ sleeps' = Append(sleeps, attempt)
    /\ attempt' = attempt + 1
    /\ lpc' = "request"
    /\ UNCHANGED <<backend, configured, retries, replies, llm_result, notLlm>>

\* the loop ran out: lines 310-312 and 166-168
LlmLoopEnds ==
    /\ lpc = "request"
    /\ attempt > retries
    /\ IF replies = <<>>
       THEN lpc' = "returned" /\ llm_result' = "empty"
       ELSE lpc' = "raised" /\ llm_result' = "last_exc"
    /\ UNCHANGED <<backend, configured, retries, attempt, replies, sleeps, notLlm>>

NextLlm == LlmEnter \/ LlmAttempt \/ LlmBackoff \/ LlmLoopEnds

(***************************************************************************)
(* llm_config.py: ensure_llm_config.  A value of the configuration is a    *)
(* record of its Python type t, its value as an integer n (what int()      *)
(* makes of it, where int() accepts it) and its value as a string s.       *)
(***************************************************************************)
PROMPT_SLOTS == 5

PyValue(t, n, s) == [t |-> t, n |-> n, s |-> s]

KeyMissing == PyValue("missing", 0, "")      \* the key is not in the dictionary
PyNone == PyValue("None", 0, "")
PyStr(x) == PyValue("str", 0, x)
PyInt(k) == PyValue("int", k, "")
PyBool(b) == PyValue("bool", IF b THEN 1 ELSE 0, "")
PyDict == PyValue("dict", 0, "")

\* an element of llm_prompts: a dictionary with its three keys, or something else
Junk == [dict |-> FALSE, name |-> KeyMissing, text |-> KeyMissing, overrides |-> KeyMissing]
Prompt(name, txt, ov) == [dict |-> TRUE, name |-> name, text |-> txt, overrides |-> ov]

PromptItems ==
    { Junk,
      Prompt(KeyMissing, KeyMissing, KeyMissing),
      Prompt(PyStr("One"), PyStr("Prompt 1"), PyDict),
      Prompt(KeyMissing, PyNone, PyStr("x")),
      Prompt(PyStr("One"), PyStr(""), PyDict) }

\* l, then f repeated up to length n
Pad(l, n, f) == [i \in 1..(IF n > Len(l) THEN n ELSE Len(l)) |-> IF i <= Len(l) THEN l[i] ELSE f]

\* lists of up to MaxListed elements, and the same filled up to one more than the slots
PromptLists ==
    { Pad(l, n, f) : l \in SeqsUpTo(PromptItems, MaxListed), n \in {0, PROMPT_SLOTS + 1},
                     f \in PromptItems }

ActiveValues ==
    { KeyMissing, PyNone, PyInt(-1), PyInt(0), PyInt(4), PyInt(5), PyInt(10),
      PyValue("str", 3, "3"), PyStr("x"), PyValue("float", 2, "2.7"), PyBool(TRUE) }

Configurations ==
    [ llm_prompts : [islist : {TRUE}, items : PromptLists] \cup {[islist |-> FALSE, items |-> <<>>]},
      llm_prompt_active : ActiveValues,
      llm_per_prompt_overrides : {KeyMissing, PyBool(TRUE), PyBool(FALSE), PyStr("yes"), PyStr("")},
      anthropic_prompt : {KeyMissing, PyStr(""), PyStr("Legacy prompt text")} ]

\* bool(v)
Truthy(v) ==
    CASE v.t \in {"missing", "None"} -> FALSE
      [] v.t = "str" -> v.s # ""
      [] v.t \in {"int", "bool"} -> v.n # 0
      [] OTHER -> TRUE

\* str(d.get(key, ""))
StrOf(v) ==
    CASE v.t = "missing" -> PyStr("")
      [] v.t = "None" -> PyStr("None")
      [] OTHER -> PyStr(v.s)

\* lines 41-47
NormalPrompt(item) ==
    IF item.dict
    THEN Prompt(StrOf(item.name), StrOf(item.text),
                IF item.overrides.t = "dict" THEN item.overrides ELSE PyDict)
    ELSE Prompt(PyStr(""), PyStr(""), PyDict)

\* lines 36-48
NormalPrompts(prompts) ==
    LET given == IF prompts.islist THEN prompts.items ELSE <<>>
    IN  [islist |-> TRUE,
         items |-> [i \in 1..PROMPT_SLOTS |->
                       NormalPrompt(IF i <= Len(given) THEN given[i]
                                    ELSE Prompt(KeyMissing, KeyMissing, KeyMissing))]]

\* the index handled as _clamp_index does: above the last slot it becomes the last slot
NormalIndex_clamped(v) ==
    LET parses == v.t \in {"missing", "int", "bool", "float"} \/ (v.t = "str" /\ v.s = "3")
        idx == IF parses THEN v.n ELSE 0
    IN  PyInt(IF idx < 0 THEN 0 ELSE IF idx >= PROMPT_SLOTS THEN PROMPT_SLOTS - 1 ELSE idx)

\* lines 55-62: int() of the value, 0 when int() raises or the index is out of range
NormalIndex(v) ==
    LET parses == v.t \in {"missing", "int", "bool", "float"} \/ (v.t = "str" /\ v.s = "3")
        idx == IF parses THEN v.n ELSE 0
    IN  PyInt(IF idx < 0 \/ idx >= PROMPT_SLOTS THEN 0 ELSE idx)

\* lines 25-75; the except clause of line 65 is not reached by values of these types
ensure_llm_config(cfg) ==
    LET norm == NormalPrompts(cfg.llm_prompts)
        migrate == /\ ~ \E i \in 1..PROMPT_SLOTS : Truthy(norm.items[i].text)
                   /\ Truthy(cfg.anthropic_prompt)
        prompts == IF migrate
                   THEN [norm EXCEPT !.items[1].text = StrOf(cfg.anthropic_prompt)]
                   ELSE norm
        active == IF migrate /\ cfg.llm_prompt_active = KeyMissing THEN PyInt(0)
                  ELSE cfg.llm_prompt_active
    IN  [ llm_prompts |-> prompts,
          llm_prompt_active |-> NormalIndex(active),
          llm_per_prompt_overrides |-> PyBool(Truthy(cfg.llm_per_prompt_overrides)),
          anthropic_prompt |-> cfg.anthropic_prompt ]

CfgIdle == configs = <<>>

InitCfg == configs \in { <<c>> : c \in Configurations }

\* ensure_llm_config on the configuration the last application left
EnsureConfig ==
    /\ Len(configs) <= MaxApplications
    /\ configs' = Append(configs, ensure_llm_config(configs[Len(configs)]))
    /\ UNCHANGED notCfg

NextCfg == EnsureConfig

(***************************************************************************)
(* The synchronous wrappers convert_clipboard_content and                  *)
(* convert_text_to_epub (converter.py 201-272, clipboard_to_epub_v4.py     *)
(* 459-504).  With an event loop running in the calling thread the         *)
(* conversion runs in a daemon thread that is joined for 30 seconds;       *)
(* otherwise it runs in the calling thread.                                *)
(***************************************************************************)
NoEffects == [file |-> FALSE, cache |-> FALSE, history |-> FALSE, error_callback |-> FALSE]

SyncIdle ==
    /\ sync_conf = [loop_running |-> FALSE, cache |-> FALSE, history |-> FALSE,
                    error_callback |-> FALSE]
    /\ wrapper = "idle"
    /\ runner = "unstarted"
    /\ effects = NoEffects
    /\ at_return = NoEffects

InitSync ==
    /\ sync_conf \in [loop_running : BOOLEAN, cache : BOOLEAN, history : BOOLEAN,
                       error_callback : BOOLEAN]
    /\ wrapper = "idle"
    /\ runner = "unstarted"
    /\ effects = NoEffects
    /\ at_return = NoEffects

\* lines 205-224 and 233: t.start(), or asyncio.run in the calling thread
SyncCall ==
    /\ wrapper = "idle"
    /\ wrapper' = IF sync_conf.loop_running THEN "joining" ELSE "direct"
    /\ runner' = "started"
    /\ UNCHANGED <<sync_conf, effects, at_return, notSync>>

\* the conversion: process_clipboard_content returned (converter.py 441)
RunnerProcessed ==
    /\ runner = "started"
    /\ runner' = "processed"
    /\ UNCHANGED <<sync_conf, wrapper, effects, at_return, notSync>>

\* the conversion raised: converter.py 462-466, error_callback if there is one
RunnerRaises ==
    /\ runner = "started"
    /\ runner' = "finished"
    /\ effects' = [effects EXCEPT !.error_callback = sync_conf.error_callback]
    /\ UNCHANGED <<sync_conf, wrapper, at_return, notSync>>

\* _create_epub_async wrote the file (converter.py 444, 979-986)
RunnerWrites ==
    /\ runner = "processed"
    /\ runner' = "written"
    /\ effects' = [effects EXCEPT !.file = TRUE]
    /\ UNCHANGED <<sync_conf, wrapper, at_return, notSync>>

\* _create_epub_async returned None (converter.py 987-989)
RunnerWritesNothing ==
    /\ runner = "processed"
    /\ runner' = "finished"
    /\ UNCHANGED <<sync_conf, wrapper, effects, at_return, notSync>>

\* converter.py 446-448
RunnerStores ==
    /\ runner = "written"
    /\ runner' = "stored"
    /\ effects' = [effects EXCEPT !.cache = sync_conf.cache]
    /\ UNCHANGED <<sync_conf, wrapper, at_return, notSync>>

\* converter.py 450-461
RunnerRecords ==
    /\ runner = "stored"
    /\ runner' = "finished"
    /\ effects' = [effects EXCEPT !.history = sync_conf.history]
    /\ UNCHANGED <<sync_conf, wrapper, at_return, notSync>>

\* lines 229-231 and 233: the conversion is over and the wrapper returns its result
WrapperReturns ==
    /\ wrapper \in {"joining", "direct"}
    /\ runner = "finished"
    /\ wrapper' = "returned"
    /\ at_return' = effects
    /\ UNCHANGED <<sync_conf, runner, effects, notSync>>

\* lines 225-228: join(timeout=30) came back and the thread is alive; return None
WrapperTimesOut ==
    /\ wrapper = "joining"
    /\ runner # "finished"
    /\ wrapper' = "timed_out"
    /\ at_return' = effects
    /\ UNCHANGED <<sync_conf, runner, effects, notSync>>

NextSync ==
    \/ SyncCall \/ RunnerProcessed \/ RunnerRaises \/ RunnerWrites \/ RunnerWritesNothing
    \/ RunnerStores \/ RunnerRecords \/ WrapperReturns \/ WrapperTimesOut

(***************************************************************************)
(* The accumulator hotkeys: _trigger_accumulate and _trigger_combine start *)
(* a thread each (converter.py 1035-1041).  ClipboardAccumulator is        *)
(* history_manager.py: add_clip appends a clip, combine_clips returns the  *)
(* clips held joined into one text, clear removes every clip held.         *)
(***************************************************************************)
AccIdle ==
    /\ clips = <<>>
    /\ next_clip = 1
    /\ cpc = "idle"
    /\ combined = <<>>
    /\ combines = 0
    /\ in_epub = {}
    /\ discarded = {}

InitAcc == AccIdle

\* ClipboardAccumulator.add_clip
add_clip(held, clip) == Append(held, clip)

\* ClipboardAccumulator.clear
clear(held) == <<>>

\* accumulate_current_clip, converter.py 339-350, on its own thread
Accumulate ==
    /\ next_clip <= MaxClips
    /\ clips' = add_clip(clips, next_clip)
    /\ next_clip' = next_clip + 1
    /\ UNCHANGED <<cpc, combined, combines, in_epub, discarded, notAcc>>

\* combine_accumulated_clips up to converter.py 381-385: combine_clips(), and None when
\* there is nothing
CombineClips ==
    /\ cpc = "idle"
    /\ combines < MaxCombines
    /\ combines' = combines + 1
    /\ combined' = clips
    /\ cpc' = IF clips = <<>> THEN "idle" ELSE "converting"
    /\ UNCHANGED <<clips, next_clip, in_epub, discarded, notAcc>>

\* the conversion of the combined text wrote an ePub and returned its path
CombineConverted ==
    /\ cpc = "converting"
    /\ in_epub' = in_epub \cup { combined[i] : i \in 1..Len(combined) }
    /\ cpc' = "converted"
    /\ UNCHANGED <<clips, next_clip, combined, combines, discarded, notAcc>>

\* the conversion returned None (it failed, or the wrapper timed out): line 354 not taken
CombineFailed ==
    /\ cpc = "converting"
    /\ cpc' = "idle"
    /\ UNCHANGED <<clips, next_clip, combined, combines, in_epub, discarded, notAcc>>

\* converter.py 354-357: self.accumulator.clear()
CombineClear ==
    /\ cpc = "converted"
    /\ discarded' = discarded \cup { clips[i] : i \in 1..Len(clips) }
    /\ clips' = clear(clips)
    /\ cpc' = "idle"
    /\ UNCHANGED <<next_clip, combined, combines, in_epub, notAcc>>

NextAcc == Accumulate \/ CombineClips \/ CombineConverted \/ CombineFailed \/ CombineClear

ExtIdle == DocIdle /\ LlmIdle /\ CfgIdle /\ SyncIdle /\ AccIdle

(***************************************************************************)
(* The specifications.                                                     *)
(***************************************************************************)
OldIdle ==
    /\ DetIdle /\ PipeIdle /\ UrlIdle /\ SplitIdle /\ AppIdle /\ HotIdle /\ AsmIdle /\ AncIdle

InitDocsAll == InitDocs /\ OldIdle /\ LlmIdle /\ CfgIdle /\ SyncIdle /\ AccIdle

SpecDocs == InitDocsAll /\ [][NextDocs]_vars

InitLlmAll == InitLlm /\ OldIdle /\ DocIdle /\ CfgIdle /\ SyncIdle /\ AccIdle

SpecLlm == InitLlmAll /\ [][NextLlm]_vars

InitCfgAll == InitCfg /\ OldIdle /\ DocIdle /\ LlmIdle /\ SyncIdle /\ AccIdle

SpecCfg == InitCfgAll /\ [][NextCfg]_vars

InitSyncAll == InitSync /\ OldIdle /\ DocIdle /\ LlmIdle /\ CfgIdle /\ AccIdle

SpecSync == InitSyncAll /\ [][NextSync]_vars

InitAccAll == InitAcc /\ OldIdle /\ DocIdle /\ LlmIdle /\ CfgIdle /\ SyncIdle

SpecAcc == InitAccAll /\ [][NextAcc]_vars

InitDetectAll == InitDetect /\ PipeIdle /\ UrlIdle /\ SplitIdle /\ AppIdle /\ HotIdle /\ AsmIdle /\ AncIdle
    /\ ExtIdle

SpecDetect == InitDetectAll /\ [][NextDetect]_vars

InitPipelineAll == InitPipeline /\ DetIdle /\ UrlIdle /\ SplitIdle /\ AppIdle /\ HotIdle /\ AsmIdle /\ AncIdle
    /\ ExtIdle

SpecPipeline == InitPipelineAll /\ [][NextPipeline]_vars

InitUrlAll == InitUrl /\ DetIdle /\ PipeIdle /\ SplitIdle /\ AppIdle /\ HotIdle /\ AsmIdle /\ AncIdle
    /\ ExtIdle

SpecUrl == InitUrlAll /\ [][NextUrl]_vars

InitSplitAll == InitSplit /\ DetIdle /\ PipeIdle /\ UrlIdle /\ AppIdle /\ HotIdle /\ AsmIdle /\ AncIdle
    /\ ExtIdle

SpecSplit == InitSplitAll /\ [][NextSplit]_vars

InitAppAll == InitApp /\ DetIdle /\ PipeIdle /\ UrlIdle /\ SplitIdle /\ HotIdle /\ AsmIdle /\ AncIdle
    /\ ExtIdle

SpecApp == InitAppAll /\ [][NextApp]_vars

InitHotkeysAll == InitHotkeys /\ DetIdle /\ PipeIdle /\ UrlIdle /\ SplitIdle /\ AppIdle /\ AsmIdle /\ AncIdle
    /\ ExtIdle

SpecHotkeys == InitHotkeysAll /\ [][NextHotkeys]_vars

InitAssembleAll ==
    /\ InitAssemble
    /\ DetIdle /\ PipeIdle /\ UrlIdle /\ SplitIdle /\ AppIdle /\ HotIdle /\ AncIdle
    /\ ExtIdle

SpecAssemble == InitAssembleAll /\ [][NextAssemble]_vars

InitAnchorsAll ==
    /\ InitAnchors
    /\ DetIdle /\ PipeIdle /\ UrlIdle /\ SplitIdle /\ AppIdle /\ HotIdle /\ AsmIdle
    /\ ExtIdle

SpecAnchors == InitAnchorsAll /\ [][NextAnchors]_vars

(***************************************************************************)
(* C2.  detect_format is total, and its answer is the format of the first  *)
(* rule, in the order blank, url, rtf, html, markdown, that the text       *)
(* matches (plain when none does): a later rule never overrides an         *)
(* earlier one.  The rules read the text with its surrounding whitespace   *)
(* removed.                                                                *)
(***************************************************************************)
Formats == {"url", "rtf", "html", "markdown", "plain"}

RuleBlank(t) == \A i \in 1..Len(t) : t[i] \in Whitespace

RuleUrl(t) ==
    LET s == Strip(t)
    IN  /\ s # <<>>
        /\ s[1] = "url"
        /\ \A i \in 1..Len(s) : s[i] # "nl"
        /\ ~ urlparse(s).raises

RuleRtf(t) == Strip(t) # <<>> /\ Strip(t)[1] = "rtf"

RuleHtml(t) == _is_html(Strip(t))

RuleMarkdown(t) == _is_markdown(Strip(t))

FirstMatch(t) ==
    CASE RuleBlank(t)    -> "plain"
      [] ~ RuleBlank(t) /\ RuleUrl(t) -> "url"
      [] ~ RuleBlank(t) /\ ~ RuleUrl(t) /\ RuleRtf(t) -> "rtf"
      [] ~ RuleBlank(t) /\ ~ RuleUrl(t) /\ ~ RuleRtf(t) /\ RuleHtml(t) -> "html"
      [] ~ RuleBlank(t) /\ ~ RuleUrl(t) /\ ~ RuleRtf(t) /\ ~ RuleHtml(t) /\ RuleMarkdown(t)
            -> "markdown"
      [] OTHER -> "plain"

C2_FirstMatchWins ==
    /\ format \in Formats \cup {"none"}
    /\ format # "none" => format = FirstMatch(text)

\* a text that matches the HTML and the Markdown heuristic has been classified
C2_Witness ==
    /\ format = "html"
    /\ RuleHtml(text)
    /\ RuleMarkdown(text)

(***************************************************************************)
(* C1.  split_content, and so process_clipboard_content, never returns an  *)
(* empty chapter list.                                                     *)
(***************************************************************************)
C1_ChaptersNeverEmpty ==
    pc \in {"split", "anchored", "done"} => chapters # <<>>

(***************************************************************************)
(* C3.  No failure inside a converter or the styling step leaves the       *)
(* pipeline: convert and process_clipboard_content return, they never      *)
(* raise.                                                                  *)
(***************************************************************************)
C3_NoFailurePropagates ==
    pc # "raised" /\ raised = "none"

(***************************************************************************)
(* C5.  In the result of process_clipboard_content, toc_html is present    *)
(* if and only if there is more than one chapter or force_toc is set.      *)
(***************************************************************************)
C5_TocIffManyOrForced ==
    pc = "done" => (toc_html.present <=> (Len(chapters) > 1 \/ options.force_toc))

\* a single chapter whose table of contents was forced, and one without
C5_Witness ==
    /\ pc = "done"
    /\ Len(chapters) = 1
    /\ options.force_toc
    /\ toc_html.present

(***************************************************************************)
(* C6.  After anchoring and TOC generation the TOC holds exactly one link  *)
(* #chapter_i per position i, chapter i carries an element with id         *)
(* chapter_i and no other chapter does, and the chapters are anchored      *)
(* (same number, same order) before the TOC is generated.                  *)
(***************************************************************************)
C6_AnchorsAgreeWithToc ==
    /\ pc = "anchored" => ~ toc_html.present
    /\ toc_html.present =>
          /\ Len(toc_html.links) = Len(chapters)
          /\ \A i \in 1..Len(chapters) :
                /\ toc_html.links[i].href = i
                /\ toc_html.links[i].title = chapters[i].title
                /\ IdCount(chapters[i].content, i) >= 1
                /\ \A j \in 1..Len(chapters) : j # i => IdCount(chapters[j].content, i) = 0


(***************************************************************************)
(* C4.  _convert_url never raises and follows the tier order: tier 2 is    *)
(* entered only after tier 1 failed, tier 3 only after tier 2 failed too,  *)
(* the first tier that succeeds gives the returned page, the error page    *)
(* names the URL and the error, and in every outcome the metadata carries  *)
(* type and source, the source being the URL.                              *)
(***************************************************************************)
C4_UrlTiersInOrder ==
    /\ upc \in {"idle", "called", "tier1", "tier2", "tier3", "returned"}
    /\ upc \notin {"idle", "returned"} => ENABLED NextUrl
    /\ attempted = SubSeq(<<1, 2, 3>>, 1, Len(attempted))
    /\ upc = "returned" =>
          /\ attempted # <<>>
          /\ page.tier = attempted[Len(attempted)]
          /\ page.html \in { p.html : p \in UrlPage(page.tier) }
          /\ page.href = url
          /\ page.tier = 3 => page.error = e2 /\ e2 \in ScrapeErrors
          /\ page.tier < 3 => page.error = "none" /\ e2 = "none"
          /\ metadata.source = url
          /\ metadata.type = "web_article"

\* the scraped page was returned after the article extraction failed
C4_Witness ==
    /\ upc = "returned"
    /\ attempted = <<1, 2>>
    /\ page.tier = 2
    /\ metadata.title = "set"


(***************************************************************************)
(* C7.  Concatenating the contents of the chapters split_content returns,  *)
(* in order, gives back the block-level elements of the source in their    *)
(* order: none is lost, none appears twice.  The h1 and h2 elements are    *)
(* left out of the comparison, since the heading path moves them into the  *)
(* chapter titles.                                                         *)
(***************************************************************************)
RECURSIVE ElementsAt(_, _)
ElementsAt(b, ps) ==
    IF ps = <<>> THEN <<>> ELSE <<At(b, Head(ps))>> \o ElementsAt(b, Tail(ps))

BlocksOf(b) == ElementsAt(b, find_all(b, BlockTags \ HeadingTags))

RECURSIVE BlocksOfChapters(_)
BlocksOfChapters(chs) ==
    IF chs = <<>> THEN <<>>
    ELSE BlocksOf(Head(chs).content.body) \o BlocksOfChapters(Tail(chs))

C7_ChaptersReconstructSource ==
    split_result.called => BlocksOfChapters(split_result.chapters) = BlocksOf(soup.body)


(***************************************************************************)
(* C8.  In every book assembled, the spine is the nav entry, then the TOC  *)
(* document if the processed content carries toc_html, then the chapters   *)
(* 1..n in order; the book's TOC list is the spine without the nav entry   *)
(* (so a document is in the one if and only if it is in the other); a TOC  *)
(* document is there whenever toc_html is.                                 *)
(***************************************************************************)
C8_SpineIsNavTocChapters ==
    book # NoBook =>
       /\ book.spine = <<Doc("nav", 0)>>
                          \o (IF book.of.toc_html THEN <<Doc("toc", 0)>> ELSE <<>>)
                          \o ChapterDocs(book.of.chapters)
       /\ book.toc = Tail(book.spine)

(***************************************************************************)
(* C9.  A call that returns a path, a cache hit included, has written a    *)
(* complete file at that path in this call, holding the book it assembled, *)
(* and no two files hold books of the same identifier.                     *)
(***************************************************************************)
C9_ReturnedPathIsWritten ==
    /\ (apc \in {"store", "returned"} /\ returned # NonePath) =>
          \E f \in files :
             /\ f.path = returned
             /\ f.complete
             /\ f.identifier = book.identifier
             /\ f \notin call.files
    /\ \A f, g \in files : f.identifier = g.identifier => f = g

(***************************************************************************)
(* C10.  convert_text_to_epub_async and convert_clipboard_content_async of *)
(* converter.py, when the text they are to convert (the argument, or for   *)
(* the latter the clipboard's or the accumulator's text when the argument  *)
(* is left out or empty) is empty or whitespace only and the clipboard     *)
(* holds no image, return None and have not run process_clipboard_content, *)
(* written a file, changed the cache or the history, or called the error   *)
(* callback.                                                               *)
(***************************************************************************)
NothingToConvertCase ==
    /\ impl = "converter"
    /\ apc = "returned"
    /\ \/ call.entry = "text" /\ call.clipboard_content \in {"None", "", "ws"}
       \/ call.entry = "clipboard" /\ app_content \in {"", "ws"} /\ ~ clipboard.image

C10_BlankTextIsNothingToConvert ==
    NothingToConvertCase =>
       /\ returned = NonePath
       /\ stats.pipeline_runs = call.stats.pipeline_runs
       /\ files = call.files
       /\ cache = call.cache
       /\ history = call.history
       /\ stats.error_callbacks = call.stats.error_callbacks

\* whitespace handed to convert_clipboard_content_async, with an entry in the cache
C10_Witness ==
    /\ NothingToConvertCase
    /\ call.entry = "clipboard"
    /\ call.clipboard_content = "ws"
    /\ app_content = "ws"
    /\ enable.cache /\ cache # {}
    /\ returned = NonePath

(***************************************************************************)
(* C11.  Placement of the ePub is all-or-nothing: every file in the output *)
(* directory is complete, and a call that returns None has left no file    *)
(* there that was not there when it started.                               *)
(***************************************************************************)
C11_PlacementIsAllOrNothing ==
    /\ \A f \in files : f.complete
    /\ (apc \in {"store", "returned"} /\ returned = NonePath) => files = call.files

(***************************************************************************)
(* C12.  Two conversions that run at the same time write to different      *)
(* files: no two threads are inside write_epub on the same path.           *)
(***************************************************************************)
C12_ConcurrentWritesDiffer ==
    \A v, w \in Threads :
       (v # w /\ workers[v].tpc = "writing" /\ workers[w].tpc = "writing")
          => workers[v].path # workers[w].path

(***************************************************************************)
(* C13.  In convert_clipboard_content_async of converter.py, a call whose  *)
(* cache lookup finds an entry assembles the ePub from that entry and runs *)
(* neither process_clipboard_content nor the YouTube path; a call whose    *)
(* lookup finds none has run process_clipboard_content exactly once when   *)
(* it returns.                                                             *)
(***************************************************************************)
LookupHit == impl = "converter" /\ stats.cache_hits > call.stats.cache_hits

LookupMiss == impl = "converter" /\ stats.cache_misses > call.stats.cache_misses

PipelineRuns == stats.pipeline_runs - call.stats.pipeline_runs

HitSkipsPipeline ==
    LookupHit =>
       /\ PipelineRuns = 0
       /\ stats.youtube_runs = call.stats.youtube_runs
       /\ stats.cache_misses = call.stats.cache_misses
       /\ apc \in {"cached", "returned"}
       /\ apc = "returned" =>
             /\ book.of \in CacheGet(call.cache, app_content)
             /\ returned # NonePath => returned.cached

C13_CacheHitSkipsPipelineMissRunsOnce ==
    /\ HitSkipsPipeline
    /\ (LookupMiss /\ apc = "returned") => PipelineRuns = 1

\* the amended statement: on a miss the pipeline has run once, or twice when the text
\* is a bare YouTube URL whose subtitle route ran the pipeline and gave no file
C13_CacheHitSkipsPipelineMissRunsOnceOrTwice ==
    /\ HitSkipsPipeline
    /\ (LookupMiss /\ apc = "returned") =>
          /\ PipelineRuns \in {1, 2}
          /\ PipelineRuns = 2 =>
                /\ _looks_like_youtube_url(app_content)
                /\ ~ call.use_accumulator
                /\ stats.youtube_runs = call.stats.youtube_runs + 1

\* a hit that wrote a book from the entry, with no run of the pipeline
C13_Witness ==
    /\ LookupHit
    /\ apc = "returned"
    /\ returned # NonePath
    /\ book.of \in CacheGet(call.cache, app_content)
    /\ PipelineRuns = 0

(***************************************************************************)
(* C14.  The title of every assembled book, on a cache miss and on a cache *)
(* hit, is the override title if that is non-empty, else the title of the  *)
(* processed metadata if that is non-empty, else Clipboard_{timestamp}.    *)
(***************************************************************************)
C14_TitleOrder ==
    ebook.built =>
       ebook.title =
          IF job.override.title.has /\ job.override.title.value # <<>>
          THEN job.override.title.value
          ELSE IF job.proc_metadata.title.has /\ job.proc_metadata.title.value # <<>>
          THEN job.proc_metadata.title.value
          ELSE <<"Clipboard", job.at>>

(***************************************************************************)
(* C15.  Every assembled book has at least one author: the override        *)
(* authors if that list is non-empty, else the authors of the processed    *)
(* metadata if that list is non-empty (an empty list included), else the   *)
(* configured default author.                                              *)
(***************************************************************************)
C15_AuthorsNeverEmpty ==
    ebook.built =>
       /\ ebook.authors # <<>>
       /\ ebook.authors =
             IF job.override.authors.has /\ job.override.authors.value # <<>>
             THEN job.override.authors.value
             ELSE IF job.proc_metadata.authors.has /\ job.proc_metadata.authors.value # <<>>
             THEN job.proc_metadata.authors.value
             ELSE <<"Unknown Author">>

(***************************************************************************)
(* C16.  The boundary of word-count splitting (documents with fewer than   *)
(* two h1/h2 headings): for every threshold T, a document of exactly T     *)
(* words gives exactly one chapter, and a document of T + 1 words, all of  *)
(* them in two or more block elements that are not nested, gives at least  *)
(* two chapters.                                                           *)
(***************************************************************************)
OnWordPath == split_result.called /\ Len(find_all(soup.body, HeadingTags)) <= 1

FlatBlocks(b) ==
    /\ Len(b) >= 2
    /\ \A i \in 1..Len(b) : b[i].tag \in BlockTags /\ b[i].kids = <<>>

C17_ExactlyOneStyle ==
    pc \in {"converted", "split", "anchored", "done"} => html.styles = 1

(***************************************************************************)
(* C18.  add_anchors_to_chapters is idempotent: applied to its own result  *)
(* it returns that result unchanged, for chapters with an h1/h2/h3 and for *)
(* chapters without, and after any number of applications chapter i holds  *)
(* exactly one element with id chapter_i.                                  *)
(***************************************************************************)
C18_AnchoringIsIdempotent ==
    \A k \in 2..Len(anchor_runs) :
       /\ k > 2 => anchor_runs[k] = anchor_runs[2]
       /\ \A i \in 1..Len(anchor_runs[k]) : IdCount(anchor_runs[k][i].content, i) = 1

(***************************************************************************)
(* C19.  detect_format never returns url for a text that contains a        *)
(* newline, a URL followed or preceded by line breaks included.            *)
(***************************************************************************)
C19_NoUrlWithNewline ==
    format = "url" => ~ Contains(text, "nl")

\* the amended statement: never url for a text that still contains a newline once its
\* leading and trailing whitespace is removed
C19_NoUrlWithInnerNewline ==
    Contains(Strip(text), "nl") => format # "url"

\* a text that starts with an absolute URL and goes on after a newline was classified
C19_Witness ==
    /\ format \notin {"none", "url"}
    /\ text # <<>>
    /\ Head(text) = "url"
    /\ Contains(Strip(text), "nl")

(***************************************************************************)
(* C20.  On the heading path (more than one h1/h2) every heading gives a   *)
(* chapter, one without following content a titled chapter with empty      *)
(* content: when some heading has content the chapters are as many as the  *)
(* headings, titled in heading order; only when no heading has content is  *)
(* the result the single chapter "Chapter 1".                              *)
(***************************************************************************)
OnHeadingPath == split_result.called /\ Len(find_all(soup.body, HeadingTags)) > 1

SomeHeadingHasContent ==
    \E i \in 1..Len(find_all(soup.body, HeadingTags)) :
        ChapterContent(soup.body, find_all(soup.body, HeadingTags)[i]) # <<>>

C20_ChapterPerHeading ==
    OnHeadingPath =>
       LET headings == find_all(soup.body, HeadingTags)
           chs == split_result.chapters
       IN  IF SomeHeadingHasContent
           THEN /\ Len(chs) = Len(headings)
                /\ \A i \in 1..Len(chs) : chs[i].title = HeadingTitle(i)
           ELSE chs = <<[title |-> ChapterN(1), content |-> soup]>>

(***************************************************************************)
(* C21.  A chapter content that starts with <!DOCTYPE or <html is used as  *)
(* it is, every other content is wrapped exactly once in the skeleton, and *)
(* no chapter document holds one document inside another.                  *)
(***************************************************************************)
C21_WrappedOnceOrAsIs ==
    (xhtml # NoXhtml /\ piece.kind = "chapter") =>
       /\ piece.lead \in {"<!DOCTYPE", "<html"} => xhtml.as_is
       /\ piece.lead = "other" => xhtml.skeletons = 1
       /\ ~ xhtml.nested

(***************************************************************************)
(* C22.  No document handed to the serializer holds a null byte, chapter   *)
(* or TOC page, on the cache-miss and on the cache-hit path.               *)
(***************************************************************************)
C22_NoNullByte ==
    xhtml.route \in {"miss", "hit"} => ~ xhtml.nul

(***************************************************************************)
(* C23.  process_text and _process_via_openrouter make at most retries + 1 *)
(* requests: the first response without error is returned at once, a 401   *)
(* or 403 raises AnthropicAuthOrConfigError on its attempt, and when every *)
(* attempt fails with a transient error AnthropicRecoverableError is       *)
(* raised after exactly retries + 1 attempts, with one backoff sleep       *)
(* between consecutive attempts and none after the last.                   *)
(***************************************************************************)
RecoverableStatus(st) == st \in {429, 408, 409, 425} \/ (500 <= st /\ st <= 599)

Transient(reply) ==
    \/ reply.k = "http" /\ RecoverableStatus(reply.status)
    \/ reply.k = "exc" /\ reply.body = "retry"

LlmOver == lpc \in {"returned", "raised"}

C23_AtMostRetriesPlusOneAttempts ==
    /\ Len(replies) <= retries + 1
    /\ \A i \in 1..Len(replies) :
          /\ replies[i].k = "ok" =>
                i = Len(replies) /\ lpc = "returned" /\ llm_result = "text"
          /\ (replies[i].k = "http" /\ replies[i].status \in {401, 403}) =>
                i = Len(replies) /\ lpc = "raised" /\ llm_result = "AnthropicAuthOrConfigError"
    /\ (LlmOver /\ replies # <<>> /\ \A i \in 1..Len(replies) : Transient(replies[i])) =>
          llm_result = "AnthropicRecoverableError" /\ Len(replies) = retries + 1
    /\ \A i \in 1..Len(sleeps) : sleeps[i] = i - 1
    /\ lpc = "request" => Len(sleeps) = Len(replies)
    /\ (lpc \in {"sleep", "returned", "raised"} /\ replies # <<>>) =>
          Len(sleeps) = Len(replies) - 1

\* every attempt failed with a transient error, more than one attempt was allowed
C23_Witness ==
    /\ lpc = "raised"
    /\ llm_result = "AnthropicRecoverableError"
    /\ retries >= 1
    /\ Len(replies) = retries + 1
    /\ Len(sleeps) = retries
    /\ \A i \in 1..Len(replies) : Transient(replies[i])

(***************************************************************************)
(* C30.  A response with an HTTP status outside the recoverable set (429,  *)
(* 408, 409, 425, 5xx), such as 400 or 404, ends the call with an error on *)
(* that attempt and no attempt follows it, whatever its body says.         *)
(***************************************************************************)
C30_NoRetryAfterPermanentStatus ==
    \A i \in 1..Len(replies) :
        (replies[i].k = "http" /\ ~ RecoverableStatus(replies[i].status)) =>
            i = Len(replies) /\ lpc = "raised"

(***************************************************************************)
(* C24.  After ensure_llm_config, on any configuration: llm_prompts has    *)
(* exactly 5 entries, each with name, text and overrides, overrides a      *)
(* mapping; llm_prompt_active is an integer in 0..4, 0 for a value out of  *)
(* range or unparsable; llm_per_prompt_overrides is a boolean; the legacy  *)
(* anthropic_prompt is in slot 0 exactly when no prompt has text; and a    *)
(* second application changes nothing.                                     *)
(***************************************************************************)
NormalConfig(c) ==
    /\ c.llm_prompts.islist
    /\ Len(c.llm_prompts.items) = 5
    /\ \A i \in 1..5 :
          LET p == c.llm_prompts.items[i]
          IN  p.dict /\ p.name.t = "str" /\ p.text.t = "str" /\ p.overrides.t = "dict"
    /\ c.llm_prompt_active.t = "int"
    /\ c.llm_prompt_active.n \in 0..4
    /\ c.llm_per_prompt_overrides.t = "bool"

BadIndex(v) ==
    \/ v.t = "None"
    \/ v.t = "str" /\ v.s \notin {"3"}
    \/ v.t \in {"int", "float", "bool"} /\ v.n \notin 0..4

NoPromptHasText(c) ==
    \A i \in 1..5 :
        i <= Len(c.llm_prompts.items) =>
            LET p == c.llm_prompts.items[i]
            IN  ~ p.dict \/ p.text.t = "missing" \/ (p.text.t = "str" /\ p.text.s = "")

\* the text slot 0 holds, as a string
SlotZeroText(c) ==
    IF Len(c.llm_prompts.items) = 0 \/ ~ c.llm_prompts.items[1].dict THEN ""
    ELSE IF c.llm_prompts.items[1].text.t = "None" THEN "None"
    ELSE c.llm_prompts.items[1].text.s

InWordLoop == OnWordPath /\ SumWords(soup.body) > words_per_chapter

RECURSIVE ChapterElements(_)
ChapterElements(chs) ==
    IF chs = <<>> THEN <<>> ELSE Head(chs).content.body \o ChapterElements(Tail(chs))

C25_ChaptersBoundedAndNumbered ==
    InWordLoop =>
       LET chs == split_result.chapters
       IN  /\ \A i \in 1..Len(chs) :
                 /\ SumWords(chs[i].content.body) <= words_per_chapter
                       \/ Len(chs[i].content.body) = 1
                 /\ chs[i].content.body # <<>>
                 /\ chs[i].title = ChapterN(i)
           /\ ChapterElements(chs) = ElementsAt(soup.body, find_all(soup.body, BlockTags))

\* several blocks went together into one chapter, and the last chapter was emitted
\* although it is below the threshold
C25_Witness ==
    /\ InWordLoop
    /\ Len(split_result.chapters) >= 2
    /\ \E i \in 1..Len(split_result.chapters) :
          Len(split_result.chapters[i].content.body) >= 2
    /\ SumWords(split_result.chapters[Len(split_result.chapters)].content.body)
          < words_per_chapter

(***************************************************************************)
(* C26.  Within one conversion the cache lookup and the cache store use    *)
(* the same key, and its content is the text after the edit window: a      *)
(* lookup is never made before the window the call has to show, and an     *)
(* entry is stored only after an ePub was written and its path returned.   *)
(* The options of the key are the same object at both places and are left  *)
(* out of it here.                                                         *)
(***************************************************************************)
ShowsEditWindow == enable.edit_window /\ call.entry = "clipboard" /\ ~ call.use_accumulator

C26_CacheKeyIsEditedContent ==
    /\ (call.lookup # "None" /\ call.put # "None") => call.lookup = call.put
    /\ (call.lookup # "None" /\ ShowsEditWindow) => call.edited
    /\ call.put # "None" =>
          /\ returned # NonePath
          /\ \E f \in files : f.path = returned

(***************************************************************************)
(* C27.  For the same processed content and the same override metadata the *)
(* book assembled on a cache hit equals the book the cache miss assembles: *)
(* here, in its title (where the title is not the timestamp one) and in    *)
(* its authors.                                                            *)
(***************************************************************************)
MissTitle ==
    Or(Get(job.override.title), Or(Get(job.proc_metadata.title), ClipboardTitle(job.at)))

MissAuthors ==
    Or(Get(job.override.authors), GetOr(job.proc_metadata.authors, <<default_author>>))

C27_HitBookEqualsMissBook ==
    (ebook.built /\ job.route = "hit") =>
       /\ MissTitle # ClipboardTitle(job.at) => ebook.title = MissTitle
       /\ ebook.authors = MissAuthors

(***************************************************************************)
(* C28.  When the synchronous wrapper returns None because its thread did  *)
(* not finish within the join timeout, the conversion left behind does     *)
(* nothing more: no file, no cache entry, no history entry and no callback *)
(* after the wrapper has returned.                                         *)
(***************************************************************************)
C28_NothingAfterTimeout ==
    wrapper = "timed_out" => effects = at_return

(***************************************************************************)
(* C29.  No accumulated clip is lost: every clip that                      *)
(* combine_accumulated_clips removes from the accumulator is in the ePub   *)
(* it wrote, under every interleaving with accumulate_current_clip on      *)
(* another thread.                                                         *)
(***************************************************************************)
C29_NoClipLost ==
    discarded \subseteq in_epub

=============================================================================
